---- MODULE Spec2Model ----
(***************************************************************************)
(* Multi-window statistical aggregation engine of double_ball_analyzer:    *)
(* the draw store, the window policy (WindowConfigManager), the hot/warm/  *)
(* cold analyzer with its TTL caches (HotColdAnalyzer), the frequency and  *)
(* bonus-trend services (AnalysisService) and the repeat-probability       *)
(* analyzer (ProbabilityAnalyzer).                                         *)
(***************************************************************************)
EXTENDS Integers, Sequences, FiniteSets, TLC

VARIABLES
    store,              \* rows of the draw table, newest issue first
    now,                \* reading of time.time()
    cached_results,     \* HotColdAnalyzer._cached_results: [single, multi]
    trend_cache,        \* HotColdAnalyzer._trend_cache
    hc,                 \* window fields a HotColdAnalyzer holds since __init__
    window_config,      \* WindowConfigManager._WINDOW_CONFIG
    pa_window_config,   \* ProbabilityAnalyzer.window_config
    call,               \* the last entry point called, with its arguments
    ret,                \* what that call returned
    env,                \* which inputs the callers draw from
    ps_cache,           \* PredictionService._hot_cold_cache
    hot_cold_analyzer,  \* the module global _hot_cold_analyzer: None or an
                        \* index into analyzers
    analyzers,          \* the HotColdAnalyzer objects made by the accessor
    services            \* the hot_cold_analyzer attribute of each service

\* the state of the shared-analyzer accessor and of its callers
registry == <<hot_cold_analyzer, analyzers, services>>

vars == <<store, now, cached_results, trend_cache, hc, window_config,
          pa_window_config, call, ret, env, ps_cache, registry>>

-----------------------------------------------------------------------------
(* Bounds of the model *)

MaxStore == 2       \* draws the store holds under the hot/cold specifications
MaxHistory == 3     \* draws the store holds under the repeat specification
MaxShares == 4      \* longest share sequence handed to _determine_ball_trend

(* Program constants *)

RedMax == 33
BlueMax == 16
HotCut == 11
WarmCut == 22
ColdCut == 33
CacheTTL == 300
DefaultShort == 30
DefaultMedium == 50
DefaultLong == 100
MinTrendDraws == 10
MinRepeatDraws == 2

\* the most draws the store of a trend analysis holds
MaxTrendStore == 11

\* Python's None where an integer is expected (window sizes)
None == -1

-----------------------------------------------------------------------------
(* Generic helpers *)

Min(a, b) == IF a < b THEN a ELSE b

Range(s) == {s[i] : i \in DOMAIN s}

RECURSIVE SumSeq(_)
SumSeq(s) == IF s = <<>> THEN 0 ELSE Head(s) + SumSeq(Tail(s))

RECURSIVE SumOver(_, _)
SumOver(f, S) ==
    IF S = {} THEN 0
    ELSE LET x == CHOOSE y \in S : TRUE IN f[x] + SumOver(f, S \ {x})

\* Python slice s[lo:hi] with 0 <= lo, 0 <= hi
Slice(s, lo, hi) == SubSeq(s, lo + 1, Min(hi, Len(s)))

\* Python slice s[-k:] for k >= 0 (s[-0:] is the whole list)
LastK(s, k) ==
    IF k = 0 \/ k >= Len(s) THEN s ELSE SubSeq(s, Len(s) - k + 1, Len(s))

-----------------------------------------------------------------------------
(* Draw records *)

MkRecord(i, c) == [issue |-> i, reds |-> c.reds, blue |-> c.blue]

Reds(record) == record.reds

\* DoubleBallRecord.is_valid
is_valid(record) ==
    /\ \A j \in 1..6 : ~(record.reds[j] < 1 \/ record.reds[j] > RedMax)
    /\ ~(record.blue < 1 \/ record.blue > BlueMax)
    /\ Cardinality(Range(record.reds)) = 6

V1 == [reds |-> <<1, 2, 3, 4, 5, 6>>, blue |-> 1]
V2 == [reds |-> <<4, 5, 6, 7, 8, 9>>, blue |-> 1]
V3 == [reds |-> <<7, 8, 9, 10, 11, 12>>, blue |-> 2]
I1 == [reds |-> <<1, 2, 3, 4, 5, 34>>, blue |-> 1]
I2 == [reds |-> <<1, 1, 2, 3, 4, 5>>, blue |-> 1]
I3 == [reds |-> <<28, 29, 30, 31, 32, 33>>, blue |-> 17]

\* a valid draw whose draw_date is None
N3 == [reds |-> <<7, 8, 9, 10, 11, 12>>, blue |-> 2, draw_date |-> None]

\* record lists a caller may pass as the `records` argument
RecordLists(e) ==
    {<<>>,
     <<MkRecord(1, V1)>>,
     <<MkRecord(2, V2), MkRecord(1, V1)>>}
    \cup (IF e = "valid" THEN {}
          ELSE {<<MkRecord(2, I1), MkRecord(1, V1)>>,
                <<MkRecord(2, I2), MkRecord(1, V1)>>,
                <<MkRecord(2, I3), MkRecord(1, V1)>>})

-----------------------------------------------------------------------------
(* DoubleBallDatabase *)

NextIssue(st) == IF st = <<>> THEN 1 ELSE st[1].issue + 1

\* a row of the table: id is the AUTOINCREMENT key
MkRow(id, issue, c) ==
    [id |-> id, issue |-> issue, reds |-> c.reds, blue |-> c.blue]

Ids(st) == {st[i].id : i \in DOMAIN st}

\* the id AUTOINCREMENT gives the next inserted row
NextId(st) ==
    IF st = <<>> THEN 1
    ELSE 1 + CHOOSE id \in Ids(st) : \A other \in Ids(st) : other <= id

\* record.draw_date is not None; the records that name no date have one
HasDrawDate(record) ==
    ~("draw_date" \in DOMAIN record /\ record.draw_date = None)

\* the loop of save_records when no insert fails: rows failing is_valid are
\* skipped, the others are inserted
RECURSIVE SaveRows(_, _)
SaveRows(st, records) ==
    IF records = <<>> THEN st
    ELSE LET r == Head(records)
         IN IF ~is_valid(r) THEN SaveRows(st, Tail(records))
            ELSE SaveRows(<<MkRow(NextId(st), NextIssue(st), r)>> \o st,
                          Tail(records))

\* an insert of the loop violates draw_date TEXT NOT NULL of the table
RaisesIntegrityError(records) ==
    \E i \in DOMAIN records :
        is_valid(records[i]) /\ ~HasDrawDate(records[i])

\* the WHERE clause of _migrate_from_temp_table on the ball columns
InBallRanges(record) ==
    /\ \A j \in 1..6 : record.reds[j] >= 1 /\ record.reds[j] <= RedMax
    /\ record.blue >= 1 /\ record.blue <= BlueMax

\* _migrate_from_temp_table: INSERT OR IGNORE of the temporary rows, whose
\* ids are their positions in the batch, from position k on
RECURSIVE MigrateFromTempTable(_, _, _)
MigrateFromTempTable(st, records, k) ==
    IF k > Len(records) THEN st
    ELSE LET r == records[k]
         IN IF InBallRanges(r) /\ HasDrawDate(r) /\ k \notin Ids(st)
            THEN MigrateFromTempTable(
                     <<MkRow(k, NextIssue(st), r)>> \o st, records, k + 1)
            ELSE MigrateFromTempTable(st, records, k + 1)

\* _save_records_without_constraints: every record of the batch goes to the
\* temporary table, which is then migrated
save_records_without_constraints(st, records) ==
    MigrateFromTempTable(st, records, 1)

\* save_records: the loop, and after an IntegrityError the rollback and the
\* fallback
save_records(st, records) ==
    IF RaisesIntegrityError(records)
    THEN save_records_without_constraints(st, records)
    ELSE SaveRows(st, records)

get_all_records(st) == st

get_recent_records(st, limit) ==
    IF limit <= 0 THEN <<>> ELSE SubSeq(st, 1, Min(limit, Len(st)))

get_record_count(st) == Len(st)

-----------------------------------------------------------------------------
(* WindowConfigManager *)

DefaultWindowConfig ==
    [short_term |-> DefaultShort, medium_term |-> DefaultMedium,
     long_term |-> DefaultLong, all_history |-> None]

\* cls._WINDOW_CONFIG.get(name): None for a name that is no key
get_window_by_name(wc, name) == IF name \in DOMAIN wc THEN wc[name] ELSE None

\* _TREND_WINDOWS as set_window_config rebuilds it
get_trend_windows(wc) ==
    <<wc.short_term, wc.medium_term, wc.long_term, None>>

\* set_window_config: only the keys present in config are overwritten
set_window_config(wc, config) ==
    [wc EXCEPT
       !.short_term = IF "short_term" \in DOMAIN config
                      THEN config.short_term ELSE @,
       !.medium_term = IF "medium_term" \in DOMAIN config
                       THEN config.medium_term ELSE @,
       !.long_term = IF "long_term" \in DOMAIN config
                     THEN config.long_term ELSE @]

-----------------------------------------------------------------------------
(* HotColdAnalyzer *)

\* HotColdAnalyzer.__init__: the window fields are copied from the manager
HotColdAnalyzerInit(wc) ==
    [short_term_window |-> get_window_by_name(wc, "short_term"),
     medium_term_window |-> get_window_by_name(wc, "medium_term"),
     long_term_window |-> get_window_by_name(wc, "long_term"),
     trend_window_sizes |-> get_trend_windows(wc)]

EmptyCache == [single |-> <<>>, multi |-> <<>>]

\* mutation of Incr: the count is set to 1 instead of incremented
IncrReset(counts, ball) == (ball :> 1) @@ counts

\* red_counts[ball] += 1 on a Counter
Incr(counts, ball) ==
    IF ball \in DOMAIN counts
    THEN [counts EXCEPT ![ball] = @ + 1]
    ELSE (ball :> 1) @@ counts

\* for ball in balls: counts[ball] += 1
RECURSIVE IncrAll(_, _)
IncrAll(counts, balls) ==
    IF balls = <<>> THEN counts
    ELSE IncrAll(Incr(counts, Head(balls)), Tail(balls))

\* for record in records: count its six red balls
RECURSIVE CountReds(_, _)
CountReds(counts, records) ==
    IF records = <<>> THEN counts
    ELSE LET counted == IncrAll(counts, Reds(Head(records)))
         IN \* the test has the counts of a draw computed before the next draw
            IF counted = counted THEN CountReds(counted, Tail(records))
            ELSE counts

ZeroCounts == [b \in 1..RedMax |-> 0]

\* mutation of count_red_balls: the numbers never seen are not zero-filled
count_red_balls_seen(records) == CountReds(<<>>, records)

\* _count_red_balls: a Counter over every ball seen, zero-filled over 1..33
\* (for ball in range(1, 34): if ball not in red_counts: red_counts[ball] = 0)
count_red_balls(records) == CountReds(<<>>, records) @@ ZeroCounts

\* mutation of SortsBefore: ties are broken by descending number
SortsBeforeDesc(rc, a, b) == rc[a] > rc[b] \/ (rc[a] = rc[b] /\ a > b)

\* sort key (-count, ball): a comes before b
SortsBefore(rc, a, b) == rc[a] > rc[b] \/ (rc[a] = rc[b] /\ a < b)

\* insertion of ball b into a list already in key order
RECURSIVE InsertSorted(_, _, _)
InsertSorted(rc, b, s) ==
    IF s = <<>> THEN <<b>>
    ELSE IF SortsBefore(rc, b, Head(s)) THEN <<b>> \o s
         ELSE <<Head(s)>> \o InsertSorted(rc, b, Tail(s))

RECURSIVE SortBalls(_, _)
SortBalls(rc, S) ==
    IF S = {} THEN <<>>
    ELSE LET b == CHOOSE x \in S : TRUE
         IN InsertSorted(rc, b, SortBalls(rc, S \ {b}))

\* sorted(red_counts.items(), key=lambda x: (-x[1], x[0])), the balls only
sorted_items(rc) == SortBalls(rc, DOMAIN rc)

\* mutation of ColdOf: the cold tier starts one place late
ColdOfLate(sorted) == Slice(sorted, WarmCut + 1, ColdCut)

\* mutation of HotOf: the hot tier leaves out the first of the ranking
HotOfSkipFirst(sorted) == Slice(sorted, 1, HotCut)

HotOf(sorted) == Slice(sorted, 0, HotCut)
WarmOf(sorted) == Slice(sorted, HotCut, WarmCut)
ColdOf(sorted) == Slice(sorted, WarmCut, ColdCut)

\* ball_status: later assignments (warm, then cold) overwrite earlier ones;
\* "hot", "warm", "cold" stand for the labels the code stores
BallStatus(hot, warm, cold) ==
    [b \in Range(hot) \cup Range(warm) \cup Range(cold) |->
        IF b \in Range(cold) THEN "cold"
        ELSE IF b \in Range(warm) THEN "warm" ELSE "hot"]

get_empty_result(window, t) ==
    [hot |-> <<>>, warm |-> <<>>, cold |-> <<>>, ball_status |-> <<>>,
     total_records |-> 0, red_counts |-> <<>>, window |-> window,
     cache_time |-> t]

\* the classification analyze builds from a non-empty record list
Classify(records, window, t) ==
    LET rc == count_red_balls(records)
        sorted == sorted_items(rc)
        hot == HotOf(sorted)
        warm == WarmOf(sorted)
        cold == ColdOf(sorted)
    IN [hot |-> hot, warm |-> warm, cold |-> cold,
        ball_status |-> BallStatus(hot, warm, cold),
        total_records |-> Len(records), red_counts |-> rc,
        window |-> window, cache_time |-> t]

CacheFresh(entry, t) == t - entry.cache_time < CacheTTL

\* HotColdAnalyzer.analyze; returns the result and the cache it leaves
analyze(cr, st, t, h, records_given, recs, window_arg, force_refresh) ==
    LET window == IF window_arg = None THEN h.short_term_window ELSE window_arg
    IN IF /\ ~force_refresh
          /\ window \in DOMAIN cr.single
          /\ CacheFresh(cr.single[window], t)
       THEN [result |-> cr.single[window], cache |-> cr, hit |-> TRUE]
       ELSE LET records == IF ~records_given
                           THEN get_recent_records(st, window) ELSE recs
            IN IF records = <<>>
               THEN [result |-> get_empty_result(window, t), cache |-> cr,
                     hit |-> FALSE]
               ELSE LET result == Classify(records, window, t)
                    IN [result |-> result,
                        cache |-> [cr EXCEPT !.single = (window :> result) @@ @],
                        hit |-> FALSE]

\* results[window] = {...}: a dict keeps the position of a key it already has
DictPut(results, entry) ==
    IF \E i \in DOMAIN results : results[i].window = entry.window
    THEN [i \in DOMAIN results |->
             IF results[i].window = entry.window THEN entry ELSE results[i]]
    ELSE Append(results, entry)

\* the loop of analyze_multiple_windows over its windows; hit tells whether
\* one of its analyze calls was served from the cache
RECURSIVE MultiLoop(_, _, _, _, _, _, _, _)
MultiLoop(ws, cr, results, st, t, h, force_refresh, hit) ==
    IF ws = <<>> THEN [results |-> results, cache |-> cr, hit |-> hit]
    ELSE IF Head(ws) = None
         THEN MultiLoop(Tail(ws), cr, results, st, t, h, force_refresh, hit)
         ELSE LET a == analyze(cr, st, t, h, FALSE, <<>>, Head(ws), force_refresh)
                  entry == [window |-> Head(ws),
                            hot |-> a.result.hot,
                            warm |-> a.result.warm,
                            cold |-> a.result.cold,
                            total_records |-> a.result.total_records]
              IN MultiLoop(Tail(ws), a.cache, DictPut(results, entry),
                           st, t, h, force_refresh, hit \/ a.hit)

BallSeq == [b \in 1..RedMax |-> b]

\* heat_map of _determine_heat_trend
HeatValue(status) ==
    IF status = "cold" THEN 1 ELSE IF status = "warm" THEN 2 ELSE 3

\* _determine_heat_trend; "warming", "cooling", "fluctuating" and
\* "insufficient" stand for the labels the code returns
determine_heat_trend(statuses) ==
    IF Len(statuses) < 2 THEN "insufficient"
    ELSE IF \A i \in 1..(Len(statuses) - 1) :
                HeatValue(statuses[i]) <= HeatValue(statuses[i + 1])
         THEN "warming"
         ELSE IF \A i \in 1..(Len(statuses) - 1) :
                     HeatValue(statuses[i]) >= HeatValue(statuses[i + 1])
              THEN "cooling"
              ELSE "fluctuating"

\* the status list of one ball: hot, else warm, else cold, per window
ball_statuses(window_results, ball) ==
    [i \in DOMAIN window_results |->
        IF ball \in Range(window_results[i].hot) THEN "hot"
        ELSE IF ball \in Range(window_results[i].warm) THEN "warm"
        ELSE "cold"]

\* _analyze_cross_window_consistency
\* a consistency analysis that files a number under consistent_warm by its
\* first window alone
consistency_by_first_window(window_results) ==
    IF Len(window_results) < 2
    THEN [message |-> "at least two windows are needed"]
    ELSE LET statuses == [b \in 1..RedMax |-> ball_statuses(window_results, b)]
             Uniform(b) == \A i \in DOMAIN statuses[b] :
                               statuses[b][i] = statuses[b][1]
             ConsistentHot(b) == Uniform(b) /\ statuses[b][1] = "hot"
             ConsistentWarm(b) == statuses[b][1] = "warm"
             ConsistentCold(b) == Uniform(b) /\ statuses[b][1] = "cold"
             Varying(b) == ~Uniform(b)
             varying_balls == SelectSeq(BallSeq, Varying)
         IN [consistent_hot |-> SelectSeq(BallSeq, ConsistentHot),
             consistent_warm |-> SelectSeq(BallSeq, ConsistentWarm),
             consistent_cold |-> SelectSeq(BallSeq, ConsistentCold),
             varying |-> [k \in DOMAIN varying_balls |->
                             [ball |-> varying_balls[k],
                              statuses |-> statuses[varying_balls[k]],
                              trend |-> determine_heat_trend(
                                            statuses[varying_balls[k]])]],
             heat_transitions |-> <<>>]

analyze_cross_window_consistency(window_results) ==
    IF Len(window_results) < 2
    THEN [message |-> "at least two windows are needed"]
    ELSE LET statuses == [b \in 1..RedMax |-> ball_statuses(window_results, b)]
             Uniform(b) == \A i \in DOMAIN statuses[b] :
                               statuses[b][i] = statuses[b][1]
             ConsistentHot(b) == Uniform(b) /\ statuses[b][1] = "hot"
             ConsistentWarm(b) == Uniform(b) /\ statuses[b][1] = "warm"
             ConsistentCold(b) == Uniform(b) /\ statuses[b][1] = "cold"
             Varying(b) == ~Uniform(b)
             varying_balls == SelectSeq(BallSeq, Varying)
         IN [consistent_hot |-> SelectSeq(BallSeq, ConsistentHot),
             consistent_warm |-> SelectSeq(BallSeq, ConsistentWarm),
             consistent_cold |-> SelectSeq(BallSeq, ConsistentCold),
             varying |-> [k \in DOMAIN varying_balls |->
                             [ball |-> varying_balls[k],
                              statuses |-> statuses[varying_balls[k]],
                              trend |-> determine_heat_trend(
                                            statuses[varying_balls[k]])]],
             heat_transitions |-> <<>>]

\* HotColdAnalyzer.analyze_multiple_windows
analyze_multiple_windows(cr, st, t, h, windows_given, windows_arg, force_refresh) ==
    LET windows == IF ~windows_given
                   THEN <<h.short_term_window, h.medium_term_window,
                          h.long_term_window>>
                   ELSE windows_arg
    IN IF /\ ~force_refresh
          /\ windows \in DOMAIN cr.multi
          /\ CacheFresh(cr.multi[windows], t)
       THEN [result |-> cr.multi[windows], cache |-> cr, hit |-> TRUE]
       ELSE LET loop == MultiLoop(windows, cr, <<>>, st, t, h, force_refresh,
                                  FALSE)
                result == [windows |-> loop.results,
                           consistency |->
                               analyze_cross_window_consistency(loop.results),
                           cache_time |-> t]
            IN [result |-> result,
                cache |-> [loop.cache EXCEPT !.multi = (windows :> result) @@ @],
                hit |-> loop.hit]

\* an occurrence share count / total_games, kept as an exact fraction
Share(count, total) == [num |-> count, den |-> total]

ShareLE(a, b) == a.num * b.den <= b.num * a.den

ShareLT(a, b) == a.num * b.den < b.num * a.den

\* hi - lo > cut, for shares lo <= hi
DiffAbove(hi, lo, cut) ==
    (hi.num * lo.den - lo.num * hi.den) * cut.den > cut.num * hi.den * lo.den

RECURSIVE MaxShare(_)
MaxShare(s) ==
    IF Len(s) = 1 THEN s[1]
    ELSE LET m == MaxShare(Tail(s))
         IN IF ShareLT(m, Head(s)) THEN Head(s) ELSE m

RECURSIVE MinShare(_)
MinShare(s) ==
    IF Len(s) = 1 THEN s[1]
    ELSE LET m == MinShare(Tail(s))
         IN IF ShareLT(Head(s), m) THEN Head(s) ELSE m

\* the thresholds 0.05 and 0.03 of _determine_ball_trend
TrendCut == Share(5, 100)
StableCut == Share(3, 100)

\* hi - lo >= cut, for shares lo <= hi
DiffAtLeast(hi, lo, cut) ==
    (hi.num * lo.den - lo.num * hi.den) * cut.den >= cut.num * hi.den * lo.den

\* mutation of determine_ball_trend: a difference of exactly 5% already
\* makes a trend (>= in place of >)
determine_ball_trend_ge(percentages) ==
    IF Len(percentages) < 2 THEN "insufficient"
    ELSE IF Len(percentages) >= 4
         THEN LET is_increasing ==
                      \A i \in 1..(Len(percentages) - 1) :
                          ShareLE(percentages[i], percentages[i + 1])
                  is_decreasing ==
                      \A i \in 1..(Len(percentages) - 1) :
                          ShareLE(percentages[i + 1], percentages[i])
                  mx == MaxShare(percentages)
                  mn == MinShare(percentages)
              IN IF is_increasing /\ DiffAtLeast(mx, mn, TrendCut)
                 THEN "increasing"
                 ELSE IF is_decreasing /\ DiffAtLeast(mx, mn, TrendCut)
                      THEN "decreasing"
                      ELSE IF ~DiffAbove(mx, mn, StableCut) THEN "stable"
                           ELSE "oscillating"
         ELSE LET first == percentages[1]
                  last == percentages[Len(percentages)]
              IN IF ShareLT(first, last) /\ DiffAtLeast(last, first, TrendCut)
                 THEN "rising"
                 ELSE IF ShareLT(last, first) /\ DiffAtLeast(first, last, TrendCut)
                      THEN "falling"
                      ELSE "stable"

\* _determine_ball_trend; "increasing", "decreasing", "stable", "oscillating"
\* (four or more shares), "rising", "falling", "stable" (two or three) and
\* "insufficient" stand for the labels the code returns
determine_ball_trend(percentages) ==
    IF Len(percentages) < 2 THEN "insufficient"
    ELSE IF Len(percentages) >= 4
         THEN LET is_increasing ==
                      \A i \in 1..(Len(percentages) - 1) :
                          ShareLE(percentages[i], percentages[i + 1])
                  is_decreasing ==
                      \A i \in 1..(Len(percentages) - 1) :
                          ShareLE(percentages[i + 1], percentages[i])
                  mx == MaxShare(percentages)
                  mn == MinShare(percentages)
              IN IF is_increasing /\ DiffAbove(mx, mn, TrendCut)
                 THEN "increasing"
                 ELSE IF is_decreasing /\ DiffAbove(mx, mn, TrendCut)
                      THEN "decreasing"
                      ELSE IF ~DiffAbove(mx, mn, StableCut) THEN "stable"
                           ELSE "oscillating"
         ELSE LET first == percentages[1]
                  last == percentages[Len(percentages)]
              IN IF ShareLT(first, last) /\ DiffAbove(last, first, TrendCut)
                 THEN "rising"
                 ELSE IF ShareLT(last, first) /\ DiffAbove(first, last, TrendCut)
                      THEN "falling"
                      ELSE "stable"

\* the loop of analyze_ball_trends over its window sizes
RECURSIVE TrendLoop(_, _, _)
TrendLoop(sizes, window_results, st) ==
    IF sizes = <<>> THEN window_results
    ELSE LET window_size == Head(sizes)
             total_records == get_record_count(st)
             period_size == IF window_size = None THEN total_records
                            ELSE Min(window_size, total_records)
             period_data == IF window_size = None THEN get_all_records(st)
                            ELSE IF period_size > 0
                                 THEN get_recent_records(st, period_size)
                                 ELSE <<>>
             entry == [window |-> window_size,
                       period_size |-> period_size,
                       red_counts |-> count_red_balls(period_data),
                       total_games |-> Len(period_data)]
         IN IF Len(period_data) < MinTrendDraws
            THEN TrendLoop(Tail(sizes), window_results, st)
            ELSE TrendLoop(Tail(sizes), DictPut(window_results, entry), st)

\* the entries of window_results named in window_order, in that order
RECURSIVE InOrder(_, _)
InOrder(window_order, window_results) ==
    IF window_order = <<>> THEN <<>>
    ELSE LET Named(entry) == entry.window = Head(window_order)
         IN SelectSeq(window_results, Named)
            \o InOrder(Tail(window_order), window_results)

\* _analyze_individual_ball_trends: window_order is built from the
\* analyzer's own trend_window_sizes (trend strength and window names aside)
analyze_individual_ball_trends(window_results, h) ==
    LET present == InOrder(h.trend_window_sizes, window_results)
        Percentages(ball) ==
            [i \in DOMAIN present |->
                Share(present[i].red_counts[ball], present[i].total_games)]
    IN IF Len(present) >= 2
       THEN [ball \in 1..RedMax |->
                [counts |-> [i \in DOMAIN present |->
                                present[i].red_counts[ball]],
                 percentages |-> Percentages(ball),
                 trend |-> determine_ball_trend(Percentages(ball)),
                 current_percentage |-> Percentages(ball)[Len(present)],
                 historical_percentage |-> Percentages(ball)[1]]]
       ELSE <<>>

TrendError == [error |-> TRUE]

\* HotColdAnalyzer.analyze_ball_trends
analyze_ball_trends(tc, st, t, h, sizes_given, sizes_arg, force_refresh) ==
    LET window_sizes == IF ~sizes_given THEN h.trend_window_sizes ELSE sizes_arg
    IN IF /\ ~force_refresh
          /\ window_sizes \in DOMAIN tc
          /\ CacheFresh(tc[window_sizes], t)
       THEN [result |-> tc[window_sizes], cache |-> tc, hit |-> TRUE]
       ELSE IF get_record_count(st) = 0
            THEN [result |-> TrendError, cache |-> tc, hit |-> FALSE]
            ELSE LET window_results == TrendLoop(window_sizes, <<>>, st)
                     result == [error |-> FALSE,
                                total_records |-> get_record_count(st),
                                window_results |-> window_results,
                                ball_trends |->
                                    analyze_individual_ball_trends(
                                        window_results, h),
                                cache_time |-> t]
                 IN [result |-> result,
                     cache |-> (window_sizes :> result) @@ tc,
                     hit |-> FALSE]

\* HotColdAnalyzer.get_ball_status; without categories it calls analyze();
\* categories is the classification it looked the ball up in, if any
get_ball_status(ball, categories_given, categories_arg, cr, st, t, h) ==
    IF ~(1 <= ball /\ ball <= RedMax)
    THEN [status |-> "invalid", categories |-> <<>>, cache |-> cr]
    ELSE LET a == analyze(cr, st, t, h, FALSE, <<>>, None, FALSE)
             categories == IF categories_given THEN categories_arg ELSE a.result
             cache == IF categories_given THEN cr ELSE a.cache
         IN [status |->
                 IF "ball_status" \in DOMAIN categories
                 THEN IF ball \in DOMAIN categories.ball_status
                      THEN categories.ball_status[ball] ELSE "cold"
                 ELSE IF ball \in Range(categories.hot) THEN "hot"
                      ELSE IF ball \in Range(categories.warm) THEN "warm"
                      ELSE "cold",
             categories |-> categories, cache |-> cache]

\* HotColdAnalyzer.clear_cache
\* a clear_cache that also drops what was computed from the window
clear_cache_related(cr, tc, window) ==
    IF window = None
    THEN [results |-> EmptyCache, trends |-> <<>>]
    ELSE [results |-> [single |-> [w \in DOMAIN cr.single \ {window} |->
                                      cr.single[w]],
                       multi |-> <<>>],
          trends |-> tc]

clear_cache(cr, tc, window) ==
    IF window = None
    THEN [results |-> EmptyCache, trends |-> <<>>]
    ELSE [results |-> [cr EXCEPT !.single =
                          [w \in DOMAIN cr.single \ {window} |-> cr.single[w]]],
          trends |-> tc]

\* HotColdAnalyzer(db): a new analyzer bound to the handle, its cache empty
HotColdAnalyzer(db) == [db |-> db, cached_results |-> EmptyCache]

\* an accessor that binds the shared analyzer to the handle of each call
get_hot_cold_analyzer_rebind(global, heap, db) ==
    IF global = None
    THEN [global |-> Len(heap) + 1,
          heap |-> Append(heap, HotColdAnalyzer(db)),
          result |-> Len(heap) + 1]
    ELSE [global |-> global,
          heap |-> [heap EXCEPT ![global].db = db],
          result |-> global]

\* get_hot_cold_analyzer: global is _hot_cold_analyzer, heap the analyzers
\* made so far; the result is the analyzer returned
get_hot_cold_analyzer(global, heap, db) ==
    IF global = None
    THEN [global |-> Len(heap) + 1,
          heap |-> Append(heap, HotColdAnalyzer(db)),
          result |-> Len(heap) + 1]
    ELSE [global |-> global, heap |-> heap, result |-> global]

-----------------------------------------------------------------------------
(* PredictionService *)

\* the category lookup of _add_unified_hot_cold_labels and of
\* _get_extension_candidates: the entry of _hot_cold_cache when there is
\* one, else the analyzer's result for the short-term window, which is stored
hot_cold_categories(ps, cr, st, t, h, wc) ==
    LET short_term_window == get_window_by_name(wc, "short_term")
    IN IF short_term_window \in DOMAIN ps
       THEN [categories |-> ps[short_term_window], ps_cache |-> ps,
             cache |-> cr, hit |-> TRUE]
       ELSE LET a == analyze(cr, st, t, h, FALSE, <<>>, short_term_window, FALSE)
            IN [categories |-> a.result,
                ps_cache |-> (short_term_window :> a.result) @@ ps,
                cache |-> a.cache, hit |-> a.hit]

\* sorted(l) for a list of integers
RECURSIVE InsertAsc(_, _)
InsertAsc(x, l) ==
    IF l = <<>> THEN <<x>>
    ELSE IF x <= Head(l) THEN <<x>> \o l
         ELSE <<Head(l)>> \o InsertAsc(x, Tail(l))

RECURSIVE sorted(_)
sorted(l) == IF l = <<>> THEN <<>> ELSE InsertAsc(Head(l), sorted(Tail(l)))

\* _get_extension_candidates after the lookup: hot then warm numbers that
\* lie in 1..33, without repetitions
InRedRange(ball) == 1 <= ball /\ ball <= RedMax

RECURSIVE Dedup(_)
Dedup(l) ==
    IF l = <<>> THEN <<>>
    ELSE LET front == Dedup(SubSeq(l, 1, Len(l) - 1))
             x == l[Len(l)]
         IN IF x \in Range(front) THEN front ELSE Append(front, x)

get_extension_candidates(categories) ==
    Dedup(SelectSeq(categories.hot, InRedRange)
          \o SelectSeq(categories.warm, InRedRange))

\* _find_safe_extension: the first free number of 10..24, else the first free
find_safe_extension(existing_reds) ==
    LET available == (1..RedMax) \ Range(existing_reds)
        middle_range == {ball \in available : 10 <= ball /\ ball <= 24}
        First(S) == CHOOSE x \in S : \A y \in S : x <= y
    IN IF available # {}
       THEN IF middle_range # {} THEN First(middle_range) ELSE First(available)
       ELSE IF 1 \notin Range(existing_reds) THEN 1 ELSE 2

\* _ensure_prediction_hierarchy, given the 6+1 prediction and the categories
\* its candidate lookup obtained (red balls and blue ball of each prediction)
ensure_prediction_hierarchy(base, categories) ==
    LET base_reds == base.red_balls
        base_blue == base.blue_ball
    IN IF base_reds = <<>> \/ Len(base_reds) # 6
       THEN [p6_plus_1 |-> base]
       ELSE LET extension_candidates == get_extension_candidates(categories)
                reds_7_plus_1 ==
                    IF Len(extension_candidates) >= 1
                    THEN sorted(Append(base_reds, extension_candidates[1]))
                    ELSE sorted(Append(base_reds,
                                       find_safe_extension(base_reds)))
                reds_8_plus_1 ==
                    IF Len(extension_candidates) >= 2
                    THEN sorted(Append(reds_7_plus_1, extension_candidates[2]))
                    ELSE sorted(Append(reds_7_plus_1,
                                       find_safe_extension(reds_7_plus_1)))
            IN [p6_plus_1 |-> base,
                p7_plus_1 |-> [red_balls |-> reds_7_plus_1,
                               blue_ball |-> base_blue],
                p8_plus_1 |-> [red_balls |-> reds_8_plus_1,
                               blue_ball |-> base_blue]]

-----------------------------------------------------------------------------
(* ProbabilityAnalyzer *)

\* _get_window_config: the three sized windows are all read as 'short_term'
pa_get_window_config(wc) ==
    [short_term |-> get_window_by_name(wc, "short_term"),
     medium_term |-> get_window_by_name(wc, "short_term"),
     long_term |-> get_window_by_name(wc, "short_term"),
     all_history |-> None]

\* the quotient freq / total, kept exact as numerator and denominator
Ratio(freq, total) == [num |-> freq, den |-> total]

ZeroRatio == Ratio(0, 1)

\* mutation of repeat_count: balls are compared position by position
repeat_count_positional(record, next_record) ==
    Cardinality({j \in 1..6 : Reds(record)[j] = Reds(next_record)[j]})

\* len(set(record_reds) & set(next_reds))
repeat_count(record, next_record) ==
    Cardinality(Range(Reds(record)) \cap Range(Reds(next_record)))

\* 1 if record.blue == next_record.blue else 0
blue_repeat(record, next_record) ==
    IF record.blue = next_record.blue THEN 1 ELSE 0

\* mutation of repeat_counts: the loop stops one pair early
RECURSIVE repeat_counts_short(_)
repeat_counts_short(period_data) ==
    IF Len(period_data) < 3 THEN <<>>
    ELSE <<repeat_count(period_data[1], period_data[2])>>
         \o repeat_counts_short(Tail(period_data))

\* the loop over adjacent pairs: repeat_counts.append(repeat_count)
RECURSIVE repeat_counts(_)
repeat_counts(period_data) ==
    IF Len(period_data) < 2 THEN <<>>
    ELSE <<repeat_count(period_data[1], period_data[2])>>
         \o repeat_counts(Tail(period_data))

\* the same loop: blue_repeat_counts.append(blue_repeat)
RECURSIVE blue_repeat_counts(_)
blue_repeat_counts(period_data) ==
    IF Len(period_data) < 2 THEN <<>>
    ELSE <<blue_repeat(period_data[1], period_data[2])>>
         \o blue_repeat_counts(Tail(period_data))

\* mutation of total_pairs: every draw is taken for a pair
total_pairs_all(period_data) == Len(period_data)

total_pairs(period_data) == Len(period_data) - 1

\* Counter(repeat_counts).get(count, 0)
count_distribution(counts, count) ==
    Cardinality({i \in DOMAIN counts : counts[i] = count})

\* number of positions of current_reds holding a ball of repeat_reds
RepeatHits(current_reds, red, record, next_record) ==
    IF red \in Range(Reds(record)) \cap Range(Reds(next_record))
    THEN Cardinality({j \in DOMAIN current_reds : current_reds[j] = red})
    ELSE 0

\* the indices i whose draw shares a number with the current draw
SimilarPairs(current_record, period_data) ==
    {i \in 1..(Len(period_data) - 1) :
        Range(Reds(current_record)) \cap Range(Reds(period_data[i])) # {}}

RECURSIVE SumRepeat(_, _)
SumRepeat(period_data, S) ==
    IF S = {} THEN 0
    ELSE LET i == CHOOSE x \in S : TRUE
         IN repeat_count(period_data[i], period_data[i + 1])
            + SumRepeat(period_data, S \ {i})

RECURSIVE SumBlue(_, _)
SumBlue(period_data, S) ==
    IF S = {} THEN 0
    ELSE LET i == CHOOSE x \in S : TRUE
         IN blue_repeat(period_data[i], period_data[i + 1])
            + SumBlue(period_data, S \ {i})

RECURSIVE SumHits(_, _, _, _)
SumHits(current_reds, red, period_data, S) ==
    IF S = {} THEN 0
    ELSE LET i == CHOOSE x \in S : TRUE
         IN RepeatHits(current_reds, red, period_data[i], period_data[i + 1])
            + SumHits(current_reds, red, period_data, S \ {i})

calculate_current_predictions(current_record, period_data) ==
    LET current_reds == Reds(current_record)
        similar == SimilarPairs(current_record, period_data)
        total_comparisons == Cardinality(similar)
    IN IF total_comparisons > 0
       THEN [based_on_comparisons |-> total_comparisons,
             avg_repeat_count |->
                 Ratio(SumRepeat(period_data, similar), total_comparisons),
             red_probabilities |->
                 [red \in Range(current_reds) |->
                     Ratio(SumHits(current_reds, red, period_data, similar),
                           total_comparisons)],
             blue_repeat_probability |->
                 Ratio(SumBlue(period_data, similar), total_comparisons)]
       ELSE [based_on_comparisons |-> 0,
             avg_repeat_count |-> ZeroRatio,
             red_probabilities |->
                 [red \in Range(current_reds) |-> ZeroRatio],
             blue_repeat_probability |-> ZeroRatio]

calculate_window_repeat_stats(pwc, window_name, current_record, period_data) ==
    LET pairs == total_pairs(period_data)
        counts == repeat_counts(period_data)
    IN [window_name |-> window_name,
        period_limit |-> pwc[window_name],
        effective_periods |-> Len(period_data),
        total_pairs |-> pairs,
        repeat_distribution |->
            IF pairs > 0
            THEN [count \in 0..6 |->
                     Ratio(count_distribution(counts, count), pairs)]
            ELSE <<>>,
        blue_repeat_probability |->
            IF pairs > 0
            THEN Ratio(SumSeq(blue_repeat_counts(period_data)), pairs)
            ELSE ZeroRatio,
        current_predictions |->
            calculate_current_predictions(current_record, period_data)]

\* the draws _analyze_single_window takes for a window
period_data_of(pwc, window_name, all_records) ==
    LET period_limit == pwc[window_name]
    IN IF window_name = "all_history" \/ period_limit = None
       THEN all_records
       ELSE LastK(all_records, Min(period_limit, Len(all_records)))

\* mutation of analyze_single_window: no check of the window's length
analyze_single_window_unguarded(pwc, window_name, current_record, all_records) ==
    [none |-> FALSE,
     value |-> calculate_window_repeat_stats(
                   pwc, window_name, current_record,
                   period_data_of(pwc, window_name, all_records))]

\* None when the window holds fewer than two draws
analyze_single_window(pwc, window_name, current_record, all_records) ==
    LET period_data == period_data_of(pwc, window_name, all_records)
    IN IF Len(period_data) < MinRepeatDraws
       THEN [none |-> TRUE]
       ELSE [none |-> FALSE,
             value |-> calculate_window_repeat_stats(
                           pwc, window_name, current_record, period_data)]

pa_get_empty_result(cur_given, current_record) ==
    IF cur_given
    THEN [error |-> TRUE, window_analysis |-> <<>>,
          current_period |-> current_record.issue,
          current_reds |-> Reds(current_record),
          current_blue |-> current_record.blue]
    ELSE [error |-> TRUE, window_analysis |-> <<>>]

DefaultWindowGroup == <<"short_term", "medium_term", "long_term", "all_history">>

\* the threshold 0.02 of _determine_trend_type
RepeatTrendCut == Share(2, 100)

\* _determine_trend_type over the values of the windows present, in window
\* order; "incomplete" stands for the label returned when they are not four
determine_trend_type(values) ==
    IF Len(values) < 2 THEN "insufficient"
    ELSE LET is_increasing == \A i \in 1..(Len(values) - 1) :
                                  ShareLE(values[i], values[i + 1])
             is_decreasing == \A i \in 1..(Len(values) - 1) :
                                  ShareLE(values[i + 1], values[i])
             mx == MaxShare(values)
             mn == MinShare(values)
         IN IF Len(values) = 4
            THEN IF is_increasing /\ DiffAbove(mx, mn, RepeatTrendCut)
                 THEN "increasing"
                 ELSE IF is_decreasing /\ DiffAbove(mx, mn, RepeatTrendCut)
                      THEN "decreasing"
                      ELSE IF ~DiffAbove(mx, mn, RepeatTrendCut) THEN "stable"
                           ELSE "oscillating"
            ELSE "incomplete"

\* most_likely_repeat_count: the first count of the long-term distribution
\* whose probability exceeds every earlier one's, 0 without long_term
RECURSIVE most_likely_from(_, _, _, _)
most_likely_from(dist, count, most_likely, max_prob) ==
    IF count > 6 \/ count \notin DOMAIN dist THEN most_likely
    ELSE IF ShareLT(max_prob, dist[count])
         THEN most_likely_from(dist, count + 1, count, dist[count])
         ELSE most_likely_from(dist, count + 1, most_likely, max_prob)

\* _analyze_repeat_trends (the summary text aside)
analyze_repeat_trends(window_results) ==
    LET window_order == <<"short_term", "medium_term", "long_term", "all_history">>
        Present(window_name) == window_name \in DOMAIN window_results
        present == SelectSeq(window_order, Present)
        ProbsOf(bucket) ==
            [i \in DOMAIN present |->
                LET repeat_dist == window_results[present[i]].repeat_distribution
                IN IF bucket \in DOMAIN repeat_dist THEN repeat_dist[bucket]
                   ELSE ZeroRatio]
    IN [repeat_trends |->
            IF present = <<>> THEN <<>>
            ELSE [bucket \in 0..6 |->
                     [windows |-> present,
                      probabilities |-> ProbsOf(bucket),
                      trend |-> determine_trend_type(ProbsOf(bucket))]],
        most_likely_repeat_count |->
            IF "long_term" \in DOMAIN window_results
            THEN most_likely_from(window_results["long_term"].repeat_distribution,
                                  0, 0, ZeroRatio)
            ELSE 0]


\* the loop over window_group: unknown names and None results are skipped
RECURSIVE WindowLoop(_, _, _, _, _)
WindowLoop(group, window_results, pwc, current_record, all_records) ==
    IF group = <<>> THEN window_results
    ELSE LET window_name == Head(group)
         IN IF window_name \notin DOMAIN pwc
            THEN WindowLoop(Tail(group), window_results, pwc,
                            current_record, all_records)
            ELSE LET window_result ==
                         analyze_single_window(pwc, window_name,
                                               current_record, all_records)
                 IN WindowLoop(
                        Tail(group),
                        IF window_result.none THEN window_results
                        ELSE [results |->
                                 (window_name :> window_result.value)
                                 @@ window_results.results,
                              order |->
                                 IF window_name \in DOMAIN window_results.results
                                 THEN window_results.order
                                 ELSE Append(window_results.order, window_name)],
                        pwc, current_record, all_records)

analyze_current_period_probability(pwc, st, cur_given, current_record, group_given, window_group) ==
    IF ~cur_given THEN pa_get_empty_result(FALSE, current_record)
    ELSE LET all_records == get_all_records(st)
             total_records == Len(all_records)
         IN IF total_records < 2
            THEN pa_get_empty_result(TRUE, current_record)
            ELSE LET group == IF group_given THEN window_group
                              ELSE DefaultWindowGroup
                     loop == WindowLoop(group, [results |-> <<>>, order |-> <<>>],
                                        pwc, current_record, all_records)
                 IN [error |-> FALSE,
                     current_period |-> current_record.issue,
                     current_reds |-> Reds(current_record),
                     current_blue |-> current_record.blue,
                     total_records |-> total_records,
                     window_analysis |-> loop.results,
                     trends_analysis |-> analyze_repeat_trends(loop.results),
                     windows_analyzed |-> loop.order,
                     window_config_used |-> pwc]

-----------------------------------------------------------------------------
(* AnalysisService *)

\* for record in records: blue_counts[record.blue] += 1
RECURSIVE CountBlues(_, _)
CountBlues(counts, records) ==
    IF records = <<>> THEN counts
    ELSE CountBlues(Incr(counts, Head(records).blue), Tail(records))

ZeroBlueCounts == [b \in 1..BlueMax |-> 0]

get_frequency_analysis(st, default_window, window_arg) ==
    LET window == IF window_arg = None THEN default_window ELSE window_arg
        records == get_recent_records(st, window)
        red_counts == CountReds(<<>>, records) @@ ZeroCounts
        blue_counts == CountBlues(<<>>, records) @@ ZeroBlueCounts
    IN [window |-> window,
        total_records |-> Len(records),
        red_frequencies |-> red_counts,
        blue_frequencies |-> blue_counts,
        sorted_reds |-> sorted_items(red_counts),
        sorted_blues |-> sorted_items(blue_counts)]

-----------------------------------------------------------------------------
(* Inputs the environment draws from *)

ClockValues == {0, CacheTTL - 1, CacheTTL}

AnalyzeWindows == {None, 1}

\* analyze(window=w, force_refresh=f) over the store, and analyze(records=l)
AnalyzeCalls(e) ==
    {[op |-> "analyze", records_given |-> FALSE, records |-> <<>>,
      window |-> w, force_refresh |-> f, cache_hit |-> FALSE] :
        w \in AnalyzeWindows, f \in BOOLEAN}
    \cup
    {[op |-> "analyze", records_given |-> TRUE, records |-> l,
      window |-> None, force_refresh |-> FALSE, cache_hit |-> FALSE] :
        l \in RecordLists(e)}

MultiWindowLists == {<<1, DefaultShort>>}

TrendSizeLists == {<<MinTrendDraws, None>>, <<DefaultShort, None>>}

Batches(e) ==
    IF e = "multi" THEN {<<V1>>, <<V3>>}
    ELSE IF e \in {"trend", "cache", "shared"} THEN {<<V1>>}
    ELSE IF e = "save" THEN {<<V1>>, <<I2, V2>>, <<I2, N3>>, <<I1, N3>>}
    ELSE {<<V1>>, <<V2>>}
         \cup (IF e = "valid" THEN {} ELSE {<<I1, V2>>})
         \cup (IF e \in {"repeat", "freq"} THEN {<<V3>>} ELSE {})

\* force_refresh arguments: the cache specification leaves entries in place
ForceChoices(e) == IF e = "cache" THEN {FALSE} ELSE BOOLEAN

\* the services that ask for the shared analyzer
Callers == {"AnalysisService", "BasePredictor", "PredictionService"}

\* database handles a service may pass: two databases and no database
NoDb == "none"
DbHandles == {"main", "other", NoDb}

\* the draws behind a handle; the store is the main database
OtherDb == SaveRows(<<>>, <<V3>>)
Db(handle, st) ==
    IF handle = "main" THEN st
    ELSE IF handle = "other" THEN OtherDb
    ELSE <<>>

\* how many draws the store may hold
StoreCap(e) ==
    IF e = "repeat" THEN MaxHistory
    ELSE IF e = "trend" THEN MaxTrendStore
    ELSE IF e \in {"cache", "shared"} THEN MaxStore - 1
    ELSE MaxStore

\* the store after ten draws were saved, before a trend analysis starts
TrendHistory ==
    SaveRows(<<>>, <<V3, V1, V3, V1, V3, V1, V3, V1, V3, V1>>)

\* dictionaries passed to set_window_config
WindowConfigs ==
    {[short_term |-> 1], [short_term |-> 2], [medium_term |-> 2]}

\* window_group arguments; "weekly" is no window of the configuration
WindowGroups == {<<"short_term", "all_history">>, <<"weekly", "long_term">>}

FreqWindows == {None, 0, 1, 2, 3}

NoCall == [op |-> "none"]
NoRet == <<>>

\* the value held in ret is a classification returned by analyze
IsAnalyzeResult == call.op = "analyze"

-----------------------------------------------------------------------------
(* The hot/warm/cold analyzer over the store *)

InitCommon ==
    /\ now = 0
    /\ cached_results = EmptyCache
    /\ trend_cache = <<>>
    /\ window_config = DefaultWindowConfig
    /\ hc = HotColdAnalyzerInit(DefaultWindowConfig)
    /\ pa_window_config = pa_get_window_config(DefaultWindowConfig)
    /\ ps_cache = <<>>
    /\ hot_cold_analyzer = None
    /\ analyzers = <<>>
    /\ services = [c \in Callers |-> None]
    /\ call = NoCall
    /\ ret = NoRet

Init ==
    /\ InitCommon
    /\ store = <<>>
    /\ env = "any"

InitValid ==
    /\ InitCommon
    /\ store = <<>>
    /\ env = "valid"

Tick ==
    /\ \E t \in ClockValues : t > now /\ now' = t
    /\ call' = NoCall
    /\ ret' = NoRet
    /\ UNCHANGED <<registry, store, cached_results, trend_cache, hc, window_config,
                   pa_window_config, env, ps_cache>>

SaveRecords ==
    /\ \E batch \in Batches(env) :
          /\ Len(save_records(store, batch)) <= StoreCap(env)
          /\ store' = save_records(store, batch)
          /\ call' = [op |-> "save_records", records |-> batch]
    /\ ret' = NoRet
    /\ UNCHANGED <<registry, now, cached_results, trend_cache, hc, window_config,
                   pa_window_config, env, ps_cache>>

Analyze ==
    /\ \E c \in AnalyzeCalls(env) :
          LET a == analyze(cached_results, store, now, hc, c.records_given,
                           c.records, c.window, c.force_refresh)
          IN /\ ret' = a.result
             /\ cached_results' = a.cache
             /\ call' = [c EXCEPT !.cache_hit = a.hit]
    /\ UNCHANGED <<registry, store, now, trend_cache, hc, window_config,
                   pa_window_config, env, ps_cache>>

AnalyzeMultipleWindows ==
    /\ \E given \in BOOLEAN, force \in ForceChoices(env) :
         \E ws \in (IF given THEN MultiWindowLists ELSE {<<>>}) :
            LET a == analyze_multiple_windows(cached_results, store, now, hc,
                                              given, ws, force)
            IN /\ ret' = a.result
               /\ cached_results' = a.cache
               /\ call' = [op |-> "analyze_multiple_windows",
                           windows_given |-> given, windows |-> ws,
                           force_refresh |-> force, cache_hit |-> a.hit]
    /\ UNCHANGED <<registry, store, now, trend_cache, hc, window_config,
                   pa_window_config, env, ps_cache>>

AnalyzeBallTrends ==
    /\ \E given \in BOOLEAN, force \in ForceChoices(env) :
         \E sizes \in (IF given THEN TrendSizeLists ELSE {<<>>}) :
            LET a == analyze_ball_trends(trend_cache, store, now, hc,
                                         given, sizes, force)
            IN /\ ret' = a.result
               /\ trend_cache' = a.cache
               /\ call' = [op |-> "analyze_ball_trends",
                           sizes_given |-> given, window_sizes |-> sizes,
                           force_refresh |-> force, cache_hit |-> a.hit]
    /\ UNCHANGED <<registry, store, now, cached_results, hc, window_config,
                   pa_window_config, env, ps_cache>>

ClearCache ==
    /\ \E w \in AnalyzeWindows :
          LET c == clear_cache(cached_results, trend_cache, w)
          IN /\ cached_results' = c.results
             /\ trend_cache' = c.trends
             /\ call' = [op |-> "clear_cache", window |-> w]
    /\ ret' = NoRet
    /\ UNCHANGED <<registry, store, now, hc, window_config, pa_window_config, env, ps_cache>>

Next ==
    \/ Tick
    \/ SaveRecords
    \/ Analyze
    \/ ClearCache

InitMulti ==
    /\ InitCommon
    /\ store = <<>>
    /\ env = "multi"

NextMulti ==
    \/ SaveRecords
    \/ AnalyzeMultipleWindows
    \/ ClearCache

Spec == Init /\ [][Next]_vars

SpecValid == InitValid /\ [][Next]_vars

SpecMulti == InitMulti /\ [][NextMulti]_vars

(* Trend analysis over a store that already holds ten draws *)
InitTrend ==
    /\ InitCommon
    /\ store = TrendHistory
    /\ env = "trend"

NextTrend ==
    \/ SaveRecords
    \/ AnalyzeBallTrends
    \/ ClearCache

SpecTrend == InitTrend /\ [][NextTrend]_vars

(* The result cache and the trend cache filled by both analyses *)
InitCache ==
    /\ InitCommon
    /\ store = <<>>
    /\ env = "cache"

NextCache ==
    \/ SaveRecords
    \/ AnalyzeMultipleWindows
    \/ AnalyzeBallTrends
    \/ ClearCache

SpecCache == InitCache /\ [][NextCache]_vars

(* Services that obtain their analyzer from get_hot_cold_analyzer *)
InitShared ==
    /\ InitCommon
    /\ store = <<>>
    /\ env = "shared"

\* AnalysisService.__init__, BasePredictor.__init__, PredictionService.__init__
NewService ==
    /\ \E caller \in Callers, db \in DbHandles :
          LET g == get_hot_cold_analyzer(hot_cold_analyzer, analyzers, db)
          IN /\ hot_cold_analyzer' = g.global
             /\ analyzers' = g.heap
             /\ services' = [services EXCEPT ![caller] = g.result]
             /\ call' = [op |-> "get_hot_cold_analyzer", caller |-> caller,
                         db |-> db]
             /\ ret' = [analyzer |-> g.result]
    /\ UNCHANGED <<store, now, cached_results, trend_cache, hc, window_config,
                   pa_window_config, env, ps_cache>>

\* AnalysisService.get_hot_cold_numbers
GetHotColdNumbers ==
    /\ services["AnalysisService"] # None
    /\ \E window \in AnalyzeWindows :
          LET self == services["AnalysisService"]
              a == analyze(analyzers[self].cached_results,
                           Db(analyzers[self].db, store), now, hc,
                           FALSE, <<>>, window, FALSE)
          IN /\ analyzers' = [analyzers EXCEPT ![self].cached_results = a.cache]
             /\ ret' = a.result
             /\ call' = [op |-> "get_hot_cold_numbers", window |-> window,
                         cache_hit |-> a.hit]
    /\ UNCHANGED <<store, now, cached_results, trend_cache, hc, window_config,
                   pa_window_config, env, ps_cache, hot_cold_analyzer,
                   services>>

\* BasePredictor.get_number_categories
GetNumberCategories ==
    /\ services["BasePredictor"] # None
    /\ \E window_arg \in AnalyzeWindows :
          LET self == services["BasePredictor"]
              window == IF window_arg = None
                        THEN get_window_by_name(window_config, "short_term")
                        ELSE window_arg
              a == analyze(analyzers[self].cached_results,
                           Db(analyzers[self].db, store), now, hc,
                           FALSE, <<>>, window, FALSE)
          IN /\ analyzers' = [analyzers EXCEPT ![self].cached_results = a.cache]
             /\ ret' = [hot |-> a.result.hot, warm |-> a.result.warm,
                        cold |-> a.result.cold]
             /\ call' = [op |-> "get_number_categories", window |-> window_arg,
                         cache_hit |-> a.hit]
    /\ UNCHANGED <<store, now, cached_results, trend_cache, hc, window_config,
                   pa_window_config, env, ps_cache, hot_cold_analyzer,
                   services>>

NextShared ==
    \/ SaveRecords
    \/ NewService
    \/ GetHotColdNumbers
    \/ GetNumberCategories

SpecShared == InitShared /\ [][NextShared]_vars

-----------------------------------------------------------------------------
(* The repeat-probability analyzer and the window configuration *)

InitRepeat ==
    /\ InitCommon
    /\ store = <<>>
    /\ env = "repeat"

SetWindowConfig ==
    /\ \E config \in WindowConfigs :
          /\ window_config' = set_window_config(window_config, config)
          /\ call' = [op |-> "set_window_config", config |-> config]
    /\ ret' = NoRet
    /\ UNCHANGED <<registry, store, now, cached_results, trend_cache, hc,
                   pa_window_config, env, ps_cache>>

\* ProbabilityAnalyzer(db): a new analyzer reads the configuration
NewProbabilityAnalyzer ==
    /\ pa_window_config' = pa_get_window_config(window_config)
    /\ call' = [op |-> "ProbabilityAnalyzer"]
    /\ ret' = NoRet
    /\ UNCHANGED <<registry, store, now, cached_results, trend_cache, hc,
                   window_config, env, ps_cache>>

\* the current draw a caller passes: the newest stored one
CurrentRecord(st) == IF st = <<>> THEN MkRecord(1, V1) ELSE st[1]

AnalyzeCurrentPeriodProbability ==
    /\ \E cur_given \in BOOLEAN, group_given \in BOOLEAN :
         \E group \in (IF group_given THEN WindowGroups ELSE {<<>>}) :
            /\ ret' = analyze_current_period_probability(
                          pa_window_config, store, cur_given,
                          CurrentRecord(store), group_given, group)
            /\ call' = [op |-> "analyze_current_period_probability",
                        cur_given |-> cur_given,
                        current_record |-> CurrentRecord(store),
                        group_given |-> group_given,
                        window_group |-> group]
    /\ UNCHANGED <<registry, store, now, cached_results, trend_cache, hc,
                   window_config, pa_window_config, env, ps_cache>>

NextRepeat ==
    \/ SaveRecords
    \/ SetWindowConfig
    \/ NewProbabilityAnalyzer
    \/ AnalyzeCurrentPeriodProbability

SpecRepeat == InitRepeat /\ [][NextRepeat]_vars

-----------------------------------------------------------------------------
(* The window configuration and the components that read it *)

\* names handed to get_window_by_name; "weekly" is no window of the
\* configuration
WindowNames == {"short_term", "medium_term", "long_term", "all_history", "weekly"}

InitConfig ==
    /\ InitCommon
    /\ store = <<>>
    /\ env = "config"

\* get_window_by_name returns (it has no raise statement)
GetWindowByName ==
    /\ \E name \in WindowNames :
          /\ ret' = [raised |-> FALSE,
                     value |-> get_window_by_name(window_config, name)]
          /\ call' = [op |-> "get_window_by_name", name |-> name]
    /\ UNCHANGED <<registry, store, now, cached_results, trend_cache, hc,
                   window_config, pa_window_config, env, ps_cache>>

\* HotColdAnalyzer(db): a new analyzer copies the sizes and has empty caches
NewHotColdAnalyzer ==
    /\ hc' = HotColdAnalyzerInit(window_config)
    /\ cached_results' = EmptyCache
    /\ trend_cache' = <<>>
    /\ call' = [op |-> "HotColdAnalyzer"]
    /\ ret' = NoRet
    /\ UNCHANGED <<registry, store, now, window_config, pa_window_config, env, ps_cache>>

NextConfig ==
    \/ SetWindowConfig
    \/ GetWindowByName
    \/ NewHotColdAnalyzer
    \/ NewProbabilityAnalyzer

SpecConfig == InitConfig /\ [][NextConfig]_vars

-----------------------------------------------------------------------------
(* The prediction service over the analyzer *)

InitPrediction ==
    /\ InitCommon
    /\ store = <<>>
    /\ env = "valid"

\* _add_unified_hot_cold_labels: the categories it labels the predictions
\* with (the labels go into the caller's result dictionary)
AddUnifiedHotColdLabels ==
    /\ LET c == hot_cold_categories(ps_cache, cached_results, store, now, hc,
                                    window_config)
       IN /\ ret' = c.categories
          /\ ps_cache' = c.ps_cache
          /\ cached_results' = c.cache
          /\ call' = [op |-> "_add_unified_hot_cold_labels",
                      cache_hit |-> c.hit]
    /\ UNCHANGED <<registry, store, now, trend_cache, hc, window_config,
                   pa_window_config, env>>

\* _get_extension_candidates: the categories it takes its candidates from
GetExtensionCandidates ==
    /\ LET c == hot_cold_categories(ps_cache, cached_results, store, now, hc,
                                    window_config)
       IN /\ ret' = c.categories
          /\ ps_cache' = c.ps_cache
          /\ cached_results' = c.cache
          /\ call' = [op |-> "_get_extension_candidates",
                      cache_hit |-> c.hit]
    /\ UNCHANGED <<registry, store, now, trend_cache, hc, window_config,
                   pa_window_config, env>>

\* 6+1 predictions handed to _ensure_prediction_hierarchy; the last one is
\* incomplete
BasePredictions ==
    {[red_balls |-> <<1, 2, 3, 4, 5, 6>>, blue_ball |-> 1],
     [red_balls |-> <<12, 13, 14, 15, 16, 17>>, blue_ball |-> 2],
     [red_balls |-> <<1, 2, 3, 4, 5>>, blue_ball |-> 1]}

\* _ensure_prediction_hierarchy(result); the candidate lookup is made only
\* for a complete 6+1 prediction
EnsurePredictionHierarchy ==
    /\ \E base \in BasePredictions :
          LET c == hot_cold_categories(ps_cache, cached_results, store, now,
                                       hc, window_config)
              complete == Len(base.red_balls) = 6
          IN /\ ret' = ensure_prediction_hierarchy(base, c.categories)
             /\ ps_cache' = IF complete THEN c.ps_cache ELSE ps_cache
             /\ cached_results' = IF complete THEN c.cache ELSE cached_results
             /\ call' = [op |-> "_ensure_prediction_hierarchy", base |-> base]
    /\ UNCHANGED <<registry, store, now, trend_cache, hc, window_config,
                   pa_window_config, env>>

NextPrediction ==
    \/ Tick
    \/ SaveRecords
    \/ ClearCache
    \/ AddUnifiedHotColdLabels
    \/ GetExtensionCandidates
    \/ EnsurePredictionHierarchy

SpecPrediction == InitPrediction /\ [][NextPrediction]_vars

-----------------------------------------------------------------------------
(* The per-number lookup over the analyzer's classifications *)

\* balls handed to get_ball_status: inside and just outside 1..33
StatusBalls == {0, 1, 12, RedMax, RedMax + 1}

\* get_ball_status(ball) and get_ball_status(ball, categories), where the
\* categories are the classification the caller has just got from analyze
GetBallStatus ==
    /\ \E ball \in StatusBalls, given \in BOOLEAN :
          /\ given => IsAnalyzeResult
          /\ LET g == get_ball_status(ball, given, ret, cached_results,
                                      store, now, hc)
             IN /\ ret' = [status |-> g.status, categories |-> g.categories]
                /\ cached_results' = g.cache
                /\ call' = [op |-> "get_ball_status", ball |-> ball,
                            categories_given |-> given]
    /\ UNCHANGED <<registry, store, now, trend_cache, hc, window_config,
                   pa_window_config, env, ps_cache>>

NextStatus ==
    \/ SaveRecords
    \/ Analyze
    \/ GetBallStatus

SpecStatus == InitValid /\ [][NextStatus]_vars

-----------------------------------------------------------------------------
(* The frequency tables *)

InitFreq ==
    /\ InitCommon
    /\ store = <<>>
    /\ env = "freq"

\* AnalysisService.__init__: default_window is the short-term window
default_window == get_window_by_name(DefaultWindowConfig, "short_term")

GetFrequencyAnalysis ==
    /\ \E w \in FreqWindows :
          /\ ret' = get_frequency_analysis(store, default_window, w)
          /\ call' = [op |-> "get_frequency_analysis", window |-> w]
    /\ UNCHANGED <<registry, store, now, cached_results, trend_cache, hc,
                   window_config, pa_window_config, env, ps_cache>>

\* _count_red_balls applied to a window of the store
CountRedBalls ==
    /\ \E w \in FreqWindows \ {None} :
          /\ ret' = count_red_balls(get_recent_records(store, w))
          /\ call' = [op |-> "_count_red_balls",
                      records |-> get_recent_records(store, w)]
    /\ UNCHANGED <<registry, store, now, cached_results, trend_cache, hc,
                   window_config, pa_window_config, env, ps_cache>>

NextFreq ==
    \/ SaveRecords
    \/ GetFrequencyAnalysis
    \/ CountRedBalls

SpecFreq == InitFreq /\ [][NextFreq]_vars

(* save_records with batches that make it take the fallback *)
InitSave ==
    /\ InitCommon
    /\ store = <<>>
    /\ env = "save"

NextSave ==
    \/ Tick
    \/ SaveRecords
    \/ CountRedBalls

SpecSave == InitSave /\ [][NextSave]_vars

-----------------------------------------------------------------------------
(* The trend label of a share sequence *)

\* occurrence shares 10%, 11%, 14% and 16%: their differences are 1% to 6%
Shares == {Share(1, 10), Share(11, 100), Share(7, 50), Share(4, 25)}

RECURSIVE ShareListsOfLen(_)
ShareListsOfLen(n) ==
    IF n = 0 THEN {<<>>}
    ELSE {Append(l, x) : l \in ShareListsOfLen(n - 1), x \in Shares}

\* the percentages lists of up to MaxShares shares
ShareLists == UNION {ShareListsOfLen(n) : n \in 0..MaxShares}

InitLabel ==
    /\ InitCommon
    /\ store = <<>>
    /\ env = "label"

DetermineBallTrend ==
    /\ \E percentages \in ShareLists :
          /\ ret' = [trend |-> determine_ball_trend(percentages)]
          /\ call' = [op |-> "_determine_ball_trend",
                      percentages |-> percentages]
    /\ UNCHANGED <<registry, store, now, cached_results, trend_cache, hc,
                   window_config, pa_window_config, env, ps_cache>>

NextLabel ==
    \/ DetermineBallTrend

SpecLabel == InitLabel /\ [][NextLabel]_vars

-----------------------------------------------------------------------------
(* Reading the last call *)

IsAnalyze == call.op = "analyze"

\* the window an analyze call works on
CallWindow == IF call.window = None THEN hc.short_term_window ELSE call.window

\* the draws an analyze call is about: its records argument, else the store's
CallRecords ==
    IF call.records_given THEN call.records
    ELSE get_recent_records(store, CallWindow)

\* a result without its cache timestamp
Strip(r) == [f \in DOMAIN r \ {"cache_time"} |-> r[f]]

\* what an analyzer without any cache computes from the given draws
CacheFree(records, window) ==
    IF records = <<>> THEN get_empty_result(window, now)
    ELSE Classify(records, window, now)

ValidOnly(records) == SelectSeq(records, is_valid)

\* occurrences of ball b among the red balls of the records
RECURSIVE OccurrencesIn(_, _)
OccurrencesIn(records, b) ==
    IF records = <<>> THEN 0
    ELSE Cardinality({j \in 1..6 : Reds(Head(records))[j] = b})
         + OccurrencesIn(Tail(records), b)

Ranking(r) == r.hot \o r.warm \o r.cold

\* 1 = hot, 2 = warm, 3 = cold, 4 = in no tier
TierNum(r, b) ==
    IF b \in Range(r.hot) THEN 1
    ELSE IF b \in Range(r.warm) THEN 2
    ELSE IF b \in Range(r.cold) THEN 3 ELSE 4

IsPartition(r) ==
    /\ Len(r.hot) = 11 /\ Len(r.warm) = 11 /\ Len(r.cold) = 11
    /\ Range(r.hot) \cap Range(r.warm) = {}
    /\ Range(r.hot) \cap Range(r.cold) = {}
    /\ Range(r.warm) \cap Range(r.cold) = {}
    /\ Range(r.hot) \cup Range(r.warm) \cup Range(r.cold) = 1..33
    /\ Cardinality(Range(r.hot)) = 11
    /\ Cardinality(Range(r.warm)) = 11
    /\ Cardinality(Range(r.cold)) = 11

-----------------------------------------------------------------------------
(* C1: when every draw handed to the analyzer is valid, analyze called on a  *)
(* non-empty sequence of draws (its records argument, or the store's window) *)
(* returns hot, warm and cold lists of 11 numbers each that are pairwise     *)
(* disjoint and whose union is 1..33.                                        *)
C1_Partition ==
    (IsAnalyze /\ CallRecords # <<>>) => IsPartition(ret)

C1_Witness ==
    /\ IsAnalyze /\ ~call.cache_hit
    /\ Len(CallRecords) = 2
    /\ ret.total_records = 2
    /\ IsPartition(ret)

(* C2: in every result analyze returns, of two numbers a < b with equal      *)
(* counts the smaller one a stands earlier in the ranking hot, warm, cold,   *)
(* so a is in no colder tier than b; and the counts ranked by a computed     *)
(* (not cached) analysis are the occurrences in the call's draws.            *)
C2_TieBreak ==
    (IsAnalyze /\ ret.total_records > 0) =>
        LET rk == Ranking(ret)
            listed == Range(rk)
            hot == Range(ret.hot)
            warm == Range(ret.warm)
        IN /\ \A i, j \in 1..Len(rk) :
                 (i < j /\ ret.red_counts[rk[i]] = ret.red_counts[rk[j]]) =>
                     rk[i] < rk[j]
           /\ \A a, b \in 1..RedMax :
                 (a < b /\ ret.red_counts[a] = ret.red_counts[b]) =>
                     /\ b \in listed => a \in listed
                     /\ b \in hot => a \in hot
                     /\ b \in warm => a \in hot \cup warm
           /\ ~call.cache_hit =>
                 \A b \in 1..RedMax :
                     ret.red_counts[b] = OccurrencesIn(CallRecords, b)

C2_Witness ==
    /\ IsAnalyze /\ ~call.cache_hit
    /\ ret.total_records = 2
    /\ ret.red_counts[11] = ret.red_counts[12]
    /\ TierNum(ret, 11) = 1
    /\ TierNum(ret, 12) = 2

(* C4: the value an analyze call returns equals what an analyzer without a   *)
(* cache computes from the draws of that call (timestamps aside).            *)
C4_CacheTransparent ==
    IsAnalyze => Strip(ret) = Strip(CacheFree(CallRecords, CallWindow))

(* C10: an analysis that is computed (not served from the cache) equals the  *)
(* analysis of the valid records of its input alone: an invalid record adds  *)
(* nothing to the counts or the classification, the others are aggregated.   *)
C10_InvalidExcluded ==
    (IsAnalyze /\ ~call.cache_hit) =>
        Strip(ret) = Strip(CacheFree(ValidOnly(CallRecords), CallWindow))

-----------------------------------------------------------------------------
(* Reading the last call of the frequency and repeat analyses *)

IsRepeatCall == call.op = "analyze_current_period_probability"

\* the window names a repeat analysis was asked for
CallGroup ==
    IF call.group_given THEN call.window_group ELSE DefaultWindowGroup

\* the draws the analyzer takes for a named window of the present store
PeriodData(name) ==
    period_data_of(pa_window_config, name, get_all_records(store))

\* sum of the numerators of a distribution
NumSum(dist) == SumOver([k \in DOMAIN dist |-> dist[k].num], DOMAIN dist)

\* adjacent pairs of pd whose red sets share exactly k numbers
PairsSharing(pd, k) ==
    {i \in 1..(Len(pd) - 1) :
        Cardinality(Range(pd[i].reds) \cap Range(pd[i + 1].reds)) = k}

\* adjacent pairs of pd with the same blue ball
PairsSameBlue(pd) ==
    {i \in 1..(Len(pd) - 1) : pd[i].blue = pd[i + 1].blue}

(* C3: the red frequency table of get_frequency_analysis sums to 6 * N over  *)
(* 1..33 and its blue table to N over 1..16, N being the number of draws of  *)
(* the window; the table of _count_red_balls sums to 6 * N as well.          *)
C3_FrequencySums ==
    /\ call.op = "get_frequency_analysis" =>
          /\ ret.total_records = Len(get_recent_records(store, ret.window))
          /\ SumOver(ret.red_frequencies, 1..RedMax) = 6 * ret.total_records
          /\ SumOver(ret.blue_frequencies, 1..BlueMax) = ret.total_records
    /\ call.op = "_count_red_balls" =>
          SumOver(ret, 1..RedMax) = 6 * Len(call.records)

C3_Witness ==
    /\ call.op = "get_frequency_analysis"
    /\ ret.total_records = 2
    /\ \E b \in 1..RedMax : ret.red_frequencies[b] = 2
    /\ SumOver(ret.red_frequencies, 1..RedMax) = 12
    /\ SumOver(ret.blue_frequencies, 1..BlueMax) = 2

(* C5: a sized window of N draws over a store of at least N draws is made   *)
(* of the N most recent draws: what a repeat analysis reports for it is the  *)
(* repeat statistics of the N most recent draws.                             *)
C5_MostRecentDraws ==
    IsRepeatCall =>
        \A name \in DOMAIN ret.window_analysis :
            LET N == pa_window_config[name]
            IN (N # None /\ N <= Len(store)) =>
                  ret.window_analysis[name] =
                      calculate_window_repeat_stats(
                          pa_window_config, name, call.current_record,
                          get_recent_records(store, N))

(* C6: a newly built ProbabilityAnalyzer holds, for short_term, medium_term  *)
(* and long_term, the sizes WindowConfigManager has for those names.         *)
C6_SameWindowSizes ==
    call.op = "ProbabilityAnalyzer" =>
        \A name \in {"short_term", "medium_term", "long_term"} :
            pa_window_config[name] = get_window_by_name(window_config, name)

C8_BucketValues ==
    IsRepeatCall =>
        \A name \in DOMAIN ret.window_analysis :
            LET w == ret.window_analysis[name]
                pd == PeriodData(name)
                n == Len(pd)
            IN /\ n >= 2
               /\ \A k \in 0..6 :
                     w.repeat_distribution[k]
                        = Ratio(Cardinality(PairsSharing(pd, k)), n - 1)
               /\ w.blue_repeat_probability
                     = Ratio(Cardinality(PairsSameBlue(pd)), n - 1)

\* the draws {1..6}, {4..9}, {7..12}: bucket 3 is 2/2, every other one 0/2
C8_Witness ==
    /\ IsRepeatCall
    /\ Len(store) = 3
    /\ Range(store[3].reds) = 1..6
    /\ Range(store[2].reds) = 4..9
    /\ Range(store[1].reds) = 7..12
    /\ "all_history" \in DOMAIN ret.window_analysis
    /\ LET w == ret.window_analysis["all_history"]
       IN /\ w.repeat_distribution[3] = Ratio(2, 2)
          /\ \A k \in (0..6) \ {3} : w.repeat_distribution[k] = Ratio(0, 2)
          /\ w.blue_repeat_probability = Ratio(1, 2)

(* C9: a repeat analysis over a history of fewer than 2 draws returns the    *)
(* error result with an empty window_analysis; otherwise a requested window  *)
(* holding fewer than 2 draws is left out of window_analysis, and every      *)
(* window reported has at least one pair and divides by a positive number.   *)
C9_InsufficientData ==
    (IsRepeatCall /\ call.cur_given) =>
        /\ Len(store) < 2 =>
              (ret.error /\ ret.window_analysis = <<>>)
        /\ Len(store) >= 2 =>
              /\ ~ret.error
              /\ \A name \in Range(CallGroup) \cap DOMAIN pa_window_config :
                    Len(PeriodData(name)) < 2 =>
                        name \notin DOMAIN ret.window_analysis
        /\ \A name \in DOMAIN ret.window_analysis :
              LET w == ret.window_analysis[name]
              IN /\ w.total_pairs >= 1
                 /\ DOMAIN w.repeat_distribution = 0..6
                 /\ \A k \in 0..6 : w.repeat_distribution[k].den >= 1
                 /\ w.blue_repeat_probability.den = w.total_pairs

\* a one-draw window left out next to a window that is reported
C9_Witness ==
    /\ IsRepeatCall /\ call.cur_given
    /\ Len(store) >= 2
    /\ "short_term" \in Range(CallGroup)
    /\ Len(PeriodData("short_term")) = 1
    /\ "short_term" \notin DOMAIN ret.window_analysis
    /\ "all_history" \in DOMAIN ret.window_analysis

\* a history of one draw answered by the error result
C9_WitnessError ==
    /\ IsRepeatCall /\ call.cur_given
    /\ Len(store) = 1
    /\ ret.error
    /\ ret.window_analysis = <<>>

-----------------------------------------------------------------------------
(* Reading a multi-window call *)

IsMulti == call.op = "analyze_multiple_windows"

\* the window list an analyze_multiple_windows call works on
CallWindows ==
    IF call.windows_given THEN call.windows
    ELSE <<hc.short_term_window, hc.medium_term_window, hc.long_term_window>>

\* the call compared its windows: at least two of them were analysed
Compared == IsMulti /\ Len(ret.windows) >= 2

TierName(r, b) ==
    IF b \in Range(r.hot) THEN "hot"
    ELSE IF b \in Range(r.warm) THEN "warm"
    ELSE IF b \in Range(r.cold) THEN "cold" ELSE "none"

InEveryWindow(b, tier) ==
    \A i \in DOMAIN ret.windows : TierName(ret.windows[i], b) = tier

(* C11: when analyze_multiple_windows analysed at least two windows, a       *)
(* number is under consistent_hot (consistent_warm, consistent_cold) if and  *)
(* only if it is in the hot (warm, cold) list of every analysed window, and  *)
(* every other number has exactly one entry under varying whose statuses     *)
(* hold its tier in each analysed window, in window order.                   *)
C11_Consistency ==
    Compared =>
        LET c == ret.consistency
            chot == Range(c.consistent_hot)
            cwarm == Range(c.consistent_warm)
            ccold == Range(c.consistent_cold)
        IN \A b \in 1..RedMax :
              /\ b \in chot <=> InEveryWindow(b, "hot")
              /\ b \in cwarm <=> InEveryWindow(b, "warm")
              /\ b \in ccold <=> InEveryWindow(b, "cold")
              /\ b \notin chot \cup cwarm \cup ccold =>
                    /\ Cardinality({k \in DOMAIN c.varying :
                                       c.varying[k].ball = b}) = 1
                    /\ \A k \in DOMAIN c.varying :
                          c.varying[k].ball = b =>
                              c.varying[k].statuses =
                                  [i \in DOMAIN ret.windows |->
                                      TierName(ret.windows[i], b)]

\* the same statement over calls in which every analysed window held a draw
C11_NonEmptyWindows ==
    \/ IsMulti /\ \E i \in DOMAIN ret.windows : ret.windows[i].total_records = 0
    \/ C11_Consistency

C11_VaryingSeen ==
    /\ Compared
    /\ \E k \in DOMAIN ret.consistency.varying :
          /\ ret.consistency.varying[k].ball = 12
          /\ ret.consistency.varying[k].statuses = <<"hot", "warm">>

\* the draws the i-th analysed window of a multi-window call covers
WindowDraws(i) == get_recent_records(store, ret.windows[i].window)

\* ball b is among the red balls of every draw of a non-empty list
InEveryDraw(records, b) ==
    records # <<>> /\ OccurrencesIn(records, b) = Len(records)

(* C12: in a multi-window analysis computed from the store (nothing served   *)
(* from the cache) over valid draws, a number that is in every draw of a     *)
(* non-empty window is in that window's hot list, for every window size; and *)
(* when at least two windows are analysed, a number that is in every draw of *)
(* every window is listed under consistent_hot.                              *)
C12_AlwaysDrawnHot ==
    (IsMulti /\ ~call.cache_hit) =>
        /\ \A i \in DOMAIN ret.windows :
              LET records == WindowDraws(i)
                  hot == Range(ret.windows[i].hot)
              IN \A b \in 1..RedMax : InEveryDraw(records, b) => b \in hot
        /\ Compared =>
              LET chot == Range(ret.consistency.consistent_hot)
              IN \A b \in 1..RedMax :
                    (\A i \in DOMAIN ret.windows :
                         InEveryDraw(WindowDraws(i), b)) => b \in chot

C12_Witness ==
    /\ Compared /\ ~call.cache_hit
    /\ Len(store) = 2
    /\ \A i \in DOMAIN ret.windows : InEveryDraw(WindowDraws(i), 1)
    /\ \E i \in DOMAIN ret.windows : ret.windows[i].total_records = 2
    /\ \E i \in DOMAIN ret.windows : ret.windows[i].total_records = 1
    /\ 1 \in Range(ret.consistency.consistent_hot)

-----------------------------------------------------------------------------
\* the numbers with at least one occurrence among the red balls of the records
Drawn(records) == {a \in 1..RedMax : OccurrencesIn(records, a) > 0}

(* C13 as stated: in an analysis computed from a non-empty sequence of       *)
(* valid draws, every number that is in none of the draws is in the cold     *)
(* list.                                                                     *)
C13_AbsentIsCold ==
    (IsAnalyze /\ ~call.cache_hit /\ CallRecords # <<>>) =>
        \A b \in 1..RedMax :
            b \notin Drawn(CallRecords) => b \in Range(ret.cold)

(* C13, amended: in an analysis computed from a non-empty sequence of valid  *)
(* draws, a number b that is in none of the draws ranks after every drawn    *)
(* number and after every smaller undrawn number, so it is in the cold list  *)
(* exactly when the drawn numbers and the undrawn numbers below b together   *)
(* are at least 22; otherwise it is hot or warm.                             *)
C13_AbsentRankedLast ==
    (IsAnalyze /\ ~call.cache_hit /\ CallRecords # <<>>) =>
        LET drawn == Drawn(CallRecords)
            cold == Range(ret.cold)
        IN \A b \in (1..RedMax) \ drawn :
              b \in cold <=>
                  Cardinality(drawn)
                    + Cardinality({a \in 1..(b - 1) : a \notin drawn}) >= WarmCut

C13_Witness ==
    /\ IsAnalyze /\ ~call.cache_hit
    /\ Len(CallRecords) = 2
    /\ 10 \notin Drawn(CallRecords) /\ 10 \in Range(ret.hot)
    /\ 33 \notin Drawn(CallRecords) /\ 33 \in Range(ret.cold)

-----------------------------------------------------------------------------
IsLabelCall == call.op = "_determine_ball_trend"

\* a share in hundredths of a percent (the shares checked are whole multiples)
BasisPoints(share) == (share.num * 10000) \div share.den

\* max - min of the call's shares, in hundredths of a percent
Spread ==
    LET bp == {BasisPoints(call.percentages[i]) : i \in DOMAIN call.percentages}
    IN (CHOOSE x \in bp : \A y \in bp : y <= x)
       - (CHOOSE x \in bp : \A y \in bp : x <= y)

NonDecreasing ==
    \A i \in 1..(Len(call.percentages) - 1) :
        BasisPoints(call.percentages[i]) <= BasisPoints(call.percentages[i + 1])

NonIncreasing ==
    \A i \in 1..(Len(call.percentages) - 1) :
        BasisPoints(call.percentages[i]) >= BasisPoints(call.percentages[i + 1])

C14_WitnessStable ==
    /\ IsLabelCall /\ Len(call.percentages) = 4
    /\ Spread = 300
    /\ ret.trend = "stable"

-----------------------------------------------------------------------------
(* C15: in a multi-window analysis every window that enters the cross-window *)
(* comparison holds at least 10 draws: a window with fewer draws is left out *)
(* of the comparison.                                                        *)
C15_SmallWindowsLeftOut ==
    (IsMulti /\ "consistent_hot" \in DOMAIN ret.consistency) =>
        \A i \in DOMAIN ret.windows :
            ret.windows[i].total_records >= MinTrendDraws

-----------------------------------------------------------------------------
KnownWindowNames == {"short_term", "medium_term", "long_term", "all_history"}

(* C16: resolving a window name that is none of short_term, medium_term,     *)
(* long_term, all_history raises a configuration error and so returns no     *)
(* value, in particular not the all-history sentinel.                        *)
C16_UnknownNameRejected ==
    (call.op = "get_window_by_name" /\ call.name \notin KnownWindowNames) =>
        ret.raised

\* the same for the probability analyzer: a window group with an unknown
\* name does not yield an ordinary result
C16_UnknownNameNotSkipped ==
    (/\ IsRepeatCall
     /\ \E i \in DOMAIN CallGroup : CallGroup[i] \notin KnownWindowNames) =>
        ret.error

(* C17: the window sizes a constructed HotColdAnalyzer holds are the sizes   *)
(* WindowConfigManager currently returns for the same names, after any       *)
(* sequence of set_window_config calls and analyzer constructions.           *)
C17_SizesCurrent ==
    /\ hc.short_term_window = get_window_by_name(window_config, "short_term")
    /\ hc.medium_term_window = get_window_by_name(window_config, "medium_term")
    /\ hc.long_term_window = get_window_by_name(window_config, "long_term")
    /\ hc.trend_window_sizes = get_trend_windows(window_config)

-----------------------------------------------------------------------------
\* the call returned a classification: one of analyze or of the prediction
\* service's category lookups
ReturnsCategories ==
    call.op \in {"analyze", "_add_unified_hot_cold_labels",
                 "_get_extension_candidates"}

(* C18: a classification handed out by the analyzer or by the prediction     *)
(* service is younger than the TTL of 300 s: an entry whose age has reached  *)
(* the TTL is not served, the request recomputes.                            *)
C18_ServedWithinTTL ==
    ReturnsCategories => now - ret.cache_time < CacheTTL

\* the same for the analyzer's own calls alone
C18_AnalyzerWithinTTL ==
    IsAnalyze => now - ret.cache_time < CacheTTL

-----------------------------------------------------------------------------
(* C19: the red_counts table of every result of analyze has exactly one      *)
(* entry for each number 1..33, and for an empty sequence of draws it holds  *)
(* 33 zero entries with total_records 0.                                     *)
C19_FullTable ==
    IsAnalyze =>
        /\ DOMAIN ret.red_counts = 1..RedMax
        /\ ret.total_records = 0 =>
              \A b \in 1..RedMax : ret.red_counts[b] = 0

\* the same over the results analyze computes from at least one draw
C19_FullTableNonEmpty ==
    (IsAnalyze /\ ret.total_records > 0) =>
        DOMAIN ret.red_counts = 1..RedMax

(* C20: with zero draws a multi-window analysis reports no number as hot,    *)
(* warm or cold: the tiers of every window are empty and so is every         *)
(* consistency list.                                                         *)
C20_NothingReported ==
    (IsMulti /\ ~call.cache_hit /\ store = <<>>) =>
        /\ \A i \in DOMAIN ret.windows :
              /\ ret.windows[i].hot = <<>>
              /\ ret.windows[i].warm = <<>>
              /\ ret.windows[i].cold = <<>>
        /\ "consistent_hot" \in DOMAIN ret.consistency =>
              /\ ret.consistency.consistent_hot = <<>>
              /\ ret.consistency.consistent_warm = <<>>
              /\ ret.consistency.consistent_cold = <<>>
              /\ ret.consistency.varying = <<>>

\* the same for analyze alone: with zero draws its three tiers are empty
C20_AnalyzeEmpty ==
    (IsAnalyze /\ ~call.cache_hit /\ CallRecords = <<>>) =>
        /\ ret.hot = <<>> /\ ret.warm = <<>> /\ ret.cold = <<>>
        /\ ret.total_records = 0

\* and for the probability analyzer: with zero draws the error result
C20_ProbabilityEmpty ==
    (IsRepeatCall /\ store = <<>>) =>
        /\ ret.error
        /\ ret.window_analysis = <<>>

-----------------------------------------------------------------------------
\* the pairs (pd[i], pd[i + 1]) of a newest-first window whose earlier draw
\* pd[i + 1] shares a number with the current draw
EarlierSimilarPairs(current_record, pd) ==
    {i \in 1..(Len(pd) - 1) :
        Range(Reds(current_record)) \cap Range(Reds(pd[i + 1])) # {}}

(* C21: for every window a repeat analysis reports, the current predictions  *)
(* are computed over exactly the adjacent pairs of the window whose          *)
(* chronologically earlier draw shares a main number with the current draw:  *)
(* based_on_comparisons is their number, avg_repeat_count and                *)
(* blue_repeat_probability are their repeat counts and bonus repeats         *)
(* divided by that number.                                                   *)
C21_EarlierDrawFilter ==
    (IsRepeatCall /\ ~ret.error) =>
        \A name \in DOMAIN ret.window_analysis :
            LET pd == PeriodData(name)
                cp == ret.window_analysis[name].current_predictions
                S == EarlierSimilarPairs(call.current_record, pd)
            IN /\ cp.based_on_comparisons = Cardinality(S)
               /\ S # {} =>
                     /\ cp.avg_repeat_count =
                            Ratio(SumRepeat(pd, S), Cardinality(S))
                     /\ cp.blue_repeat_probability =
                            Ratio(SumBlue(pd, S), Cardinality(S))

-----------------------------------------------------------------------------
\* a probability in hundredths of a percent, rounded down
ProbBasisPoints(prob) == (prob.num * 10000) \div prob.den

(* C22: when a repeat analysis covers two or more windows, the cross-window  *)
(* trend of every repeat-count bucket 0..6 is labelled increasing iff its    *)
(* probabilities are non-decreasing over the windows and max - min > 2%,     *)
(* else decreasing iff non-increasing and max - min > 2%, else stable iff    *)
(* max - min <= 2%, else oscillating; no other label occurs.                 *)
C22_RepeatTrendLabel ==
    (IsRepeatCall /\ ~ret.error /\ Len(ret.windows_analyzed) >= 2) =>
        \A k \in 0..6 :
            LET t == ret.trends_analysis.repeat_trends[k]
                bp == [i \in DOMAIN t.probabilities |->
                          ProbBasisPoints(t.probabilities[i])]
                up == \A i \in 1..(Len(bp) - 1) : bp[i] <= bp[i + 1]
                down == \A i \in 1..(Len(bp) - 1) : bp[i] >= bp[i + 1]
                far == \E i, j \in DOMAIN bp : bp[i] - bp[j] > 200
            IN /\ t.trend \in {"increasing", "decreasing", "stable", "oscillating"}
               /\ t.trend = "increasing" <=> (up /\ far)
               /\ t.trend = "decreasing" <=> (~up /\ down /\ far)
               /\ t.trend = "stable" <=> ~far

\* the same over the analyses that cover all four windows
C22_FourWindows ==
    (IsRepeatCall /\ ~ret.error /\ Len(ret.windows_analyzed) # 4)
    \/ C22_RepeatTrendLabel

C22_FourWindowsSeen ==
    /\ IsRepeatCall /\ ~ret.error /\ Len(ret.windows_analyzed) = 4
    /\ ret.trends_analysis.repeat_trends[0].trend = "increasing"

-----------------------------------------------------------------------------
IsStatusCall == call.op = "get_ball_status"

(* C23: get_ball_status(b, C) returns the hot, warm or cold label exactly    *)
(* when b is in the hot, warm or cold list of the classification C, for      *)
(* every C analyze produces, the empty one included, and returns the invalid *)
(* marker for b outside 1..33.                                               *)
C23_LookupAgrees ==
    IsStatusCall =>
        IF call.ball \notin 1..RedMax THEN ret.status = "invalid"
        ELSE /\ ret.status = "hot" <=> call.ball \in Range(ret.categories.hot)
             /\ ret.status = "warm" <=> call.ball \in Range(ret.categories.warm)
             /\ ret.status = "cold" <=> call.ball \in Range(ret.categories.cold)

\* the same over the classifications of at least one draw
C23_NonEmptyAgrees ==
    (IsStatusCall /\ call.ball \in 1..RedMax
       /\ ret.categories.total_records = 0)
    \/ C23_LookupAgrees

C23_WarmSeen ==
    /\ IsStatusCall /\ call.ball = 12
    /\ ret.categories.total_records = 2
    /\ ret.status = "warm"

-----------------------------------------------------------------------------
IsHierarchyCall == call.op = "_ensure_prediction_hierarchy"

\* the 6+1 prediction of the call has six distinct red balls
CompleteBase ==
    /\ Len(call.base.red_balls) = 6
    /\ Cardinality(Range(call.base.red_balls)) = 6

(* C25: after _ensure_prediction_hierarchy on a 6+1 prediction of six        *)
(* distinct red balls, the 7+1 prediction holds those six and one further    *)
(* ball (seven distinct numbers of 1..33), the 8+1 prediction holds those    *)
(* seven and one further ball (eight distinct numbers), and both have the    *)
(* blue ball of 6+1.                                                         *)
C25_Hierarchy ==
    (IsHierarchyCall /\ CompleteBase) =>
        LET six == Range(call.base.red_balls)
            seven == Range(ret.p7_plus_1.red_balls)
            eight == Range(ret.p8_plus_1.red_balls)
        IN /\ Len(ret.p7_plus_1.red_balls) = 7
           /\ six \subseteq seven /\ Cardinality(seven) = 7
           /\ Len(ret.p8_plus_1.red_balls) = 8
           /\ seven \subseteq eight /\ Cardinality(eight) = 8
           /\ eight \subseteq 1..RedMax
           /\ ret.p7_plus_1.blue_ball = call.base.blue_ball
           /\ ret.p8_plus_1.blue_ball = call.base.blue_ball

\* the statement fails only by a ball of the 6+1 prediction taken twice
C25_FreshCandidates ==
    (IsHierarchyCall /\ CompleteBase
       /\ Cardinality(Range(ret.p8_plus_1.red_balls)) < 8
       /\ \E b \in Range(call.base.red_balls) :
             \E i \in 1..Len(ret.p8_plus_1.red_balls) - 1 :
                 /\ ret.p8_plus_1.red_balls[i] = b
                 /\ ret.p8_plus_1.red_balls[i + 1] = b)
    \/ C25_Hierarchy

C25_SafeExtensionSeen ==
    /\ IsHierarchyCall
    /\ ret.p6_plus_1.red_balls = <<1, 2, 3, 4, 5, 6>>
    /\ "p8_plus_1" \in DOMAIN ret
    /\ ret.p8_plus_1.red_balls = <<1, 2, 3, 4, 5, 6, 10, 11>>

-----------------------------------------------------------------------------
\* the state after a trend analysis that was computed, not served from cache
IsTrendCall ==
    /\ call.op = "analyze_ball_trends"
    /\ ~call.cache_hit
    /\ ~ret.error

\* the windows of the caller's list that hold enough draws, in list order
EnoughDraws(window_size) ==
    IF window_size = None THEN Len(store) >= MinTrendDraws
    ELSE Min(window_size, Len(store)) >= MinTrendDraws

UsableWindows == SelectSeq(call.window_sizes, EnoughDraws)

\* the draws of window sizes[i] that hold the number
CountIn(window_size, ball) ==
    LET period_data == IF window_size = None THEN store
                       ELSE SubSeq(store, 1, Min(window_size, Len(store)))
    IN OccurrencesIn(period_data, ball)

(* C26: a trend analysis for a window list the caller supplies, at least two *)
(* of whose windows hold ten or more draws, returns a trend entry for every  *)
(* number 1..33, with one count and one share per such window in the order   *)
(* of the list, whether or not the list is the configured one.               *)
C26_TrendPerSuppliedWindow ==
    (IsTrendCall /\ call.sizes_given /\ Len(UsableWindows) >= 2)
        => /\ DOMAIN ret.ball_trends = 1..RedMax
           /\ \A ball \in 1..RedMax :
                 /\ ret.ball_trends[ball].counts =
                        [i \in DOMAIN UsableWindows |->
                            CountIn(UsableWindows[i], ball)]
                 /\ Len(ret.ball_trends[ball].percentages)
                        = Len(UsableWindows)

(* C26, the part that holds: when every window of the supplied list is also  *)
(* a configured trend window, in the configured order, the entries are as    *)
(* described.                                                                *)
C26_ConfiguredWindows ==
    (IsTrendCall /\ call.sizes_given /\ Len(UsableWindows) >= 2
        /\ call.window_sizes = <<DefaultShort, None>>)
        => /\ DOMAIN ret.ball_trends = 1..RedMax
           /\ \A ball \in 1..RedMax :
                 ret.ball_trends[ball].counts =
                    [i \in DOMAIN UsableWindows |->
                        CountIn(UsableWindows[i], ball)]

C26_ConfiguredWindowsSeen ==
    /\ IsTrendCall /\ call.sizes_given
    /\ call.window_sizes = <<DefaultShort, None>>
    /\ Len(store) = MaxTrendStore
    /\ ret.ball_trends[1].counts = <<6, 6>>

-----------------------------------------------------------------------------
\* how many entries of a list of numbers are the number
TimesIn(balls, b) == Cardinality({i \in DOMAIN balls : balls[i] = b})

\* how many entries of the varying list are about the number
TimesVarying(varying, b) ==
    Cardinality({k \in DOMAIN varying : varying[k].ball = b})

Ascending(balls) ==
    \A i \in DOMAIN balls : \A j \in DOMAIN balls :
        i < j => balls[i] < balls[j]

(* C28: when a multi-window analysis compared at least two windows, every    *)
(* number 1..33 occurs exactly once in consistent_hot, consistent_warm,      *)
(* consistent_cold and the balls of varying taken together, and the three    *)
(* consistent lists are in ascending order.                                  *)
C28_Partition ==
    Compared =>
        LET c == ret.consistency
        IN /\ \A b \in 1..RedMax :
                 TimesIn(c.consistent_hot, b) + TimesIn(c.consistent_warm, b)
                   + TimesIn(c.consistent_cold, b)
                   + TimesVarying(c.varying, b) = 1
           /\ \A b \in Range(c.consistent_hot) \cup Range(c.consistent_warm)
                       \cup Range(c.consistent_cold) : b \in 1..RedMax
           /\ Ascending(c.consistent_hot)
           /\ Ascending(c.consistent_warm)
           /\ Ascending(c.consistent_cold)

\* a comparison in which all four lists are non-empty
C28_Witness ==
    /\ Compared
    /\ ret.consistency.consistent_hot # <<>>
    /\ ret.consistency.consistent_warm # <<>>
    /\ ret.consistency.consistent_cold # <<>>
    /\ Len(ret.consistency.varying) = 2

-----------------------------------------------------------------------------
(* C27: clear_cache(window=w) removes the single-window entry of w and       *)
(* leaves every other single-window entry, every multi-window entry and      *)
(* every trend entry as it was; clear_cache() empties the result cache and   *)
(* the trend cache.                                                          *)
C27_ClearCacheFrame ==
    [][call'.op = "clear_cache" =>
          IF call'.window = None
          THEN cached_results' = EmptyCache /\ trend_cache' = <<>>
          ELSE /\ DOMAIN cached_results'.single
                     = DOMAIN cached_results.single \ {call'.window}
               /\ \A w \in DOMAIN cached_results'.single :
                     cached_results'.single[w] = cached_results.single[w]
               /\ cached_results'.multi = cached_results.multi
               /\ trend_cache' = trend_cache]_vars

\* after clear_cache(1): the multi-window entry computed from windows 1 and
\* 30 over a stored draw, the entry of window 30 and a trend entry are kept,
\* the entry of window 1 is gone
C27_Witness ==
    /\ call.op = "clear_cache"
    /\ call.window = 1
    /\ 1 \notin DOMAIN cached_results.single
    /\ DefaultShort \in DOMAIN cached_results.single
    /\ <<1, DefaultShort>> \in DOMAIN cached_results.multi
    /\ cached_results.multi[<<1, DefaultShort>>].windows[1].total_records = 1
    /\ trend_cache # <<>>

-----------------------------------------------------------------------------
\* at most one analyzer was made and every service that has one has that one
OneAnalyzer ==
    /\ Len(analyzers) <= 1
    /\ hot_cold_analyzer = None <=> analyzers = <<>>
    /\ \A c \in Callers :
          services[c] # None => services[c] = hot_cold_analyzer

\* a step of get_hot_cold_analyzer: the first call makes the analyzer for its
\* handle, a later call returns the one there is and leaves it as it is
AccessorStep ==
    call'.op = "get_hot_cold_analyzer" =>
        /\ ret'.analyzer = hot_cold_analyzer'
        /\ IF hot_cold_analyzer = None
           THEN analyzers'[ret'.analyzer] = HotColdAnalyzer(call'.db)
           ELSE /\ hot_cold_analyzer' = hot_cold_analyzer
                /\ analyzers' = analyzers

\* once made, the shared analyzer is never replaced or bound to another handle
StaysBound ==
    hot_cold_analyzer # None =>
        /\ hot_cold_analyzer' = hot_cold_analyzer
        /\ analyzers'[hot_cold_analyzer].db = analyzers[hot_cold_analyzer].db

(* C29: get_hot_cold_analyzer returns one shared analyzer: the first call    *)
(* makes it for the handle it was given, every later call, whatever handle   *)
(* it passes, returns that same analyzer still bound to the first handle,    *)
(* and all services hold it and so use one cache.                            *)
C29_SharedAnalyzer ==
    /\ []OneAnalyzer
    /\ [][AccessorStep /\ StaysBound]_vars

\* a third service asked with the other database and got the analyzer of the
\* main one, whose cache an earlier service has filled
C29_Witness ==
    /\ call.op = "get_hot_cold_analyzer"
    /\ call.db = "other"
    /\ analyzers[ret.analyzer].db = "main"
    /\ services["AnalysisService"] = ret.analyzer
    /\ services["BasePredictor"] = ret.analyzer
    /\ analyzers[ret.analyzer].cached_results.single # <<>>

-----------------------------------------------------------------------------
(* C30: every row save_records has put into the table is a valid draw (six   *)
(* distinct red balls in 1..33 and a blue ball in 1..16), also after a       *)
(* batch that made it take the fallback.                                     *)
C30_OnlyValidStored == \A i \in DOMAIN store : is_valid(store[i])

\* the valid records of a batch
ValidOnes(records) == SelectSeq(records, is_valid)

(* C30, the part that holds: a save_records call that does not take the     *)
(* fallback adds one row for each valid record of the batch, in order, and   *)
(* none for the others, and leaves the rows there were.                      *)
C30_WithoutFallback ==
    [][(call'.op = "save_records" /\ ~RaisesIntegrityError(call'.records)) =>
          LET added == Len(ValidOnes(call'.records))
          IN /\ Len(store') = Len(store) + added
             /\ SubSeq(store', added + 1, Len(store')) = store
             /\ \A k \in 1..added :
                   /\ store'[added + 1 - k].reds
                        = ValidOnes(call'.records)[k].reds
                   /\ store'[added + 1 - k].blue
                        = ValidOnes(call'.records)[k].blue]_vars

\* a batch of an invalid and a valid record, saved without the fallback
C30_SkippedSeen ==
    /\ call.op = "save_records"
    /\ call.records = <<I2, V2>>
    /\ Len(store) = 1
    /\ store[1].reds = V2.reds

-----------------------------------------------------------------------------
\* the same draws in the opposite order
Reverse(l) == [i \in 1..Len(l) |-> l[Len(l) + 1 - i]]

(* C24: for every window a repeat analysis reports, the pair count, the      *)
(* repeat distribution and the bonus repeat probability, which the analyzer  *)
(* computes on the draws newest first, equal those computed on the same      *)
(* draws oldest first.                                                       *)
C24_DirectionFree ==
    (IsRepeatCall /\ ~ret.error) =>
        \A name \in DOMAIN ret.window_analysis :
            LET r == ret.window_analysis[name]
                oldest_first == Reverse(PeriodData(name))
                pairs == total_pairs(oldest_first)
                counts == repeat_counts(oldest_first)
            IN /\ r.total_pairs = pairs
               /\ \A k \in 0..6 :
                     r.repeat_distribution[k] =
                         Ratio(count_distribution(counts, k), pairs)
               /\ r.blue_repeat_probability =
                     Ratio(SumSeq(blue_repeat_counts(oldest_first)), pairs)

\* a window of three draws whose two pairs repeat different numbers of balls
C24_Witness ==
    /\ IsRepeatCall /\ ~ret.error
    /\ \E name \in DOMAIN ret.window_analysis :
          LET pd == PeriodData(name)
          IN /\ Len(pd) = 3
             /\ repeat_counts(pd) # repeat_counts(Reverse(pd))
             /\ blue_repeat_counts(pd) # blue_repeat_counts(Reverse(pd))


====
